---- MODULE Spec2Model ----
(***************************************************************************)
(* A model of the workflow playground: the graph model kept by the         *)
(* Playground page (nodes, edges, the invalid-edge cleanup effect), the    *)
(* canvas of the Workspace component (viewport, connection drag with snap  *)
(* to the nearest port, pan) and the pattern matcher that picks the        *)
(* execution route.                                                        *)
(*                                                                         *)
(* React state is modelled as it is committed: one action is one event     *)
(* handler, run to its end with the state updates it queued applied in     *)
(* order (a later setX(value) replaces an earlier one of the same batch).  *)
(* A handler reads the state of the render that created it; the listeners  *)
(* a pointer-down registers on the document keep that render's values.     *)
(* An effect scheduled by a commit runs before the next event is handled.  *)
(*                                                                         *)
(* Numbers are exact rationals <<n, d>> (d > 0, lowest terms) where the    *)
(* source uses IEEE doubles.                                               *)
(***************************************************************************)
EXTENDS Integers, Sequences, FiniteSets, TLC

(***************************************************************************)
(* Bounds of the model.                                                    *)
(***************************************************************************)
\* the most nodes on the canvas
MaxNodes == 2
\* the most edges in the edge list
MaxEdges == 2
\* the last reading of the millisecond clock
MaxClock == 3
\* the most pointer-down listeners registered at a time
MaxListeners == 1
\* the most zoom, pan and node-drag steps of one behaviour
MaxViewSteps == 3
\* the most nodes of the graphs the matcher is run on
MaxMatchNodes == 3
\* the most edges of the graphs the matcher is run on
MaxMatchEdges == 2
\* the most templates kept in the template list
MaxTemplates == 2

(***************************************************************************)
(* Rational arithmetic.                                                    *)
(***************************************************************************)
Abs(n) == IF n < 0 THEN -n ELSE n

RECURSIVE GCD(_, _)
GCD(a, b) == IF b = 0 THEN a ELSE GCD(b, a % b)

Rat(n, d) ==
  LET g == GCD(Abs(n), Abs(d))
      s == IF d < 0 THEN -1 ELSE 1
  IN  << (s * n) \div g, (s * d) \div g >>

RInt(n) == << n, 1 >>
RNeg(a) == << -a[1], a[2] >>
\* sums and comparisons over the least common denominator, products after
\* cancelling across, so that the intermediate integers stay small
RAdd(a, b) ==
  LET g == GCD(a[2], b[2])
  IN  Rat(a[1] * (b[2] \div g) + b[1] * (a[2] \div g), (a[2] \div g) * b[2])
RSub(a, b) == RAdd(a, RNeg(b))
RMul(a, b) ==
  LET g == GCD(Abs(a[1]), b[2])
      h == GCD(Abs(b[1]), a[2])
  IN  Rat((a[1] \div g) * (b[1] \div h), (a[2] \div h) * (b[2] \div g))
RDiv(a, b) == RMul(a, IF b[1] < 0 THEN << -b[2], -b[1] >> ELSE << b[2], b[1] >>)
RLe(a, b) ==
  LET g == GCD(a[2], b[2])
  IN  a[1] * (b[2] \div g) <= b[1] * (a[2] \div g)
RLt(a, b) == ~RLe(b, a)
RMin(a, b) == IF RLe(a, b) THEN a ELSE b
RMax(a, b) == IF RLe(a, b) THEN b ELSE a

\* a point {x, y}
Pt(x, y) == [x |-> x, y |-> y]
IntPt(x, y) == Pt(RInt(x), RInt(y))

(***************************************************************************)
(* Strings, character by character.                                        *)
(***************************************************************************)
\* U+2192, the arrow of the pattern catalog's connection strings
Arrow == "->"

(* The node-kind catalog: each kind's input and output fields, in catalog order. *)
nodeTemplates(nodeType) ==
  CASE nodeType = "End" ->
      [inputs  |-> <<[id |-> "input-1", name |-> "End", type |-> "none", fieldType |-> "input"]>>,
       outputs |-> <<>>]
    [] nodeType = "Text-Agent" ->
      [inputs  |-> <<[id |-> "input-1", name |-> "Tools", type |-> "tool", fieldType |-> "none"],
                    [id |-> "input-2", name |-> "Instructions", type |-> "string", fieldType |-> "input"],
                    [id |-> "input-3", name |-> "Query", type |-> "none", fieldType |-> "input"],
                    [id |-> "input-4", name |-> "LLM", type |-> "string", fieldType |-> "input"],
                    [id |-> "input-5", name |-> "API Key", type |-> "string", fieldType |-> "input"]>>,
       outputs |-> <<[id |-> "output-1", name |-> "Output", type |-> "string", fieldType |-> "output"]>>]
    [] nodeType = "Voice-Agent" ->
      [inputs  |-> <<[id |-> "input-1", name |-> "Tools", type |-> "tool", fieldType |-> "none"],
                    [id |-> "input-2", name |-> "STT", type |-> "string", fieldType |-> "input"],
                    [id |-> "input-3", name |-> "TTS", type |-> "string", fieldType |-> "input"],
                    [id |-> "input-4", name |-> "Language", type |-> "string", fieldType |-> "input"],
                    [id |-> "input-5", name |-> "Instructions", type |-> "none", fieldType |-> "input"],
                    [id |-> "input-6", name |-> "To Phone Number", type |-> "string", fieldType |-> "input"]>>,
       outputs |-> <<[id |-> "output-1", name |-> "Output", type |-> "string", fieldType |-> "output"]>>]
    [] nodeType = "CSV-Agent" ->
      [inputs  |-> <<[id |-> "input-1", name |-> "File", type |-> "none", fieldType |-> "input"],
                    [id |-> "input-2", name |-> "Instructions", type |-> "string", fieldType |-> "input"],
                    [id |-> "input-3", name |-> "Query", type |-> "string", fieldType |-> "input"]>>,
       outputs |-> <<[id |-> "output-1", name |-> "Personal Description", type |-> "string", fieldType |-> "output"],
                    [id |-> "output-2", name |-> "Receiver Emails", type |-> "string", fieldType |-> "output"],
                    [id |-> "output-3", name |-> "Output", type |-> "string", fieldType |-> "output"]>>]
    [] nodeType = "Email-Tool" ->
      [inputs  |-> <<[id |-> "input-1", name |-> "Sender Mail", type |-> "string", fieldType |-> "input"],
                    [id |-> "input-2", name |-> "Passkey", type |-> "string", fieldType |-> "input"],
                    [id |-> "input-3", name |-> "Sender's Name", type |-> "string", fieldType |-> "input"],
                    [id |-> "input-4", name |-> "Receiver Emails", type |-> "none", fieldType |-> "input"],
                    [id |-> "input-5", name |-> "Email Description", type |-> "none", fieldType |-> "input"]>>,
       outputs |-> <<[id |-> "output-1", name |-> "Status", type |-> "string", fieldType |-> "output"]>>]
    [] nodeType = "Text-Input-Tool" ->
      [inputs  |-> <<[id |-> "input-1", name |-> "Text", type |-> "string", fieldType |-> "input"]>>,
       outputs |-> <<[id |-> "output-1", name |-> "Text", type |-> "string", fieldType |-> "output"]>>]
    [] nodeType = "File-Input-Tool" ->
      [inputs  |-> <<[id |-> "input-1", name |-> "File", type |-> "file", fieldType |-> "input"]>>,
       outputs |-> <<[id |-> "output-1", name |-> "File", type |-> "file", fieldType |-> "output"]>>]
    [] nodeType = "Text-Output-Tool" ->
      [inputs  |-> <<[id |-> "input-1", name |-> "Text", type |-> "string", fieldType |-> "input"]>>,
       outputs |-> <<[id |-> "output-1", name |-> "Output", type |-> "string", fieldType |-> "output"]>>]
    [] nodeType = "Knowledge-Base" ->
      [inputs  |-> <<[id |-> "input-1", name |-> "File", type |-> "file", fieldType |-> "input"]>>,
       outputs |-> <<[id |-> "output-1", name |-> "Content", type |-> "string", fieldType |-> "output"]>>]
    [] nodeType = "Web-Search-Tool" ->
      [inputs  |-> <<>>,
       outputs |-> <<[id |-> "output-1", name |-> "Tool", type |-> "string", fieldType |-> "output"]>>]
    [] nodeType = "WhatsApp-Tool" ->
      [inputs  |-> <<>>,
       outputs |-> <<[id |-> "output-1", name |-> "Output", type |-> "string", fieldType |-> "output"]>>]
    [] nodeType = "Zoom-Tool" ->
      [inputs  |-> <<[id |-> "input-1", name |-> "Query", type |-> "string", fieldType |-> "input"]>>,
       outputs |-> <<[id |-> "output-1", name |-> "Output", type |-> "string", fieldType |-> "output"]>>]
    [] nodeType = "ArXiv-Search" ->
      [inputs  |-> <<[id |-> "input-1", name |-> "Query", type |-> "string", fieldType |-> "input"],
                    [id |-> "input-2", name |-> "LLM", type |-> "string", fieldType |-> "input"]>>,
       outputs |-> <<[id |-> "output-1", name |-> "Papers", type |-> "string", fieldType |-> "output"]>>]
    [] nodeType = "HackerNews-Search" ->
      [inputs  |-> <<[id |-> "input-1", name |-> "Query", type |-> "string", fieldType |-> "input"],
                    [id |-> "input-2", name |-> "LLM", type |-> "string", fieldType |-> "input"]>>,
       outputs |-> <<[id |-> "output-1", name |-> "Stories", type |-> "string", fieldType |-> "output"]>>]
    [] nodeType = "Web-Search" ->
      [inputs  |-> <<[id |-> "input-1", name |-> "Query", type |-> "string", fieldType |-> "input"],
                    [id |-> "input-2", name |-> "Search Engine", type |-> "string", fieldType |-> "input"],
                    [id |-> "input-3", name |-> "LLM", type |-> "string", fieldType |-> "input"]>>,
       outputs |-> <<[id |-> "output-1", name |-> "Results", type |-> "string", fieldType |-> "output"]>>]
    [] nodeType = "Pandas-Data" ->
      [inputs  |-> <<[id |-> "input-1", name |-> "Query", type |-> "string", fieldType |-> "input"],
                    [id |-> "input-2", name |-> "LLM", type |-> "string", fieldType |-> "input"]>>,
       outputs |-> <<[id |-> "output-1", name |-> "Analysis", type |-> "string", fieldType |-> "output"]>>]
    [] nodeType = "DuckDB-SQL" ->
      [inputs  |-> <<[id |-> "input-1", name |-> "Query", type |-> "string", fieldType |-> "input"],
                    [id |-> "input-2", name |-> "LLM", type |-> "string", fieldType |-> "input"]>>,
       outputs |-> <<[id |-> "output-1", name |-> "SQL Results", type |-> "string", fieldType |-> "output"]>>]
    [] nodeType = "Calculator" ->
      [inputs  |-> <<[id |-> "input-1", name |-> "Expression", type |-> "string", fieldType |-> "input"],
                    [id |-> "input-2", name |-> "LLM", type |-> "string", fieldType |-> "input"]>>,
       outputs |-> <<[id |-> "output-1", name |-> "Result", type |-> "number", fieldType |-> "output"]>>]
    [] nodeType = "JSON-Processor" ->
      [inputs  |-> <<[id |-> "input-1", name |-> "JSON Data", type |-> "string", fieldType |-> "input"],
                    [id |-> "input-2", name |-> "Operation", type |-> "string", fieldType |-> "input"],
                    [id |-> "input-3", name |-> "LLM", type |-> "string", fieldType |-> "input"]>>,
       outputs |-> <<[id |-> "output-1", name |-> "Result", type |-> "string", fieldType |-> "output"]>>]
    [] nodeType = "Python-Code" ->
      [inputs  |-> <<[id |-> "input-1", name |-> "Code Request", type |-> "string", fieldType |-> "input"],
                    [id |-> "input-2", name |-> "LLM", type |-> "string", fieldType |-> "input"]>>,
       outputs |-> <<[id |-> "output-1", name |-> "Execution Result", type |-> "string", fieldType |-> "output"]>>]
    [] nodeType = "File-Operations" ->
      [inputs  |-> <<[id |-> "input-1", name |-> "Operation", type |-> "string", fieldType |-> "input"],
                    [id |-> "input-2", name |-> "LLM", type |-> "string", fieldType |-> "input"]>>,
       outputs |-> <<[id |-> "output-1", name |-> "Result", type |-> "string", fieldType |-> "output"]>>]
    [] nodeType = "Text-Processor" ->
      [inputs  |-> <<[id |-> "input-1", name |-> "Text", type |-> "string", fieldType |-> "input"],
                    [id |-> "input-2", name |-> "LLM", type |-> "string", fieldType |-> "input"]>>,
       outputs |-> <<[id |-> "output-1", name |-> "Processed Text", type |-> "string", fieldType |-> "output"]>>]
    [] nodeType = "Web-Scraping" ->
      [inputs  |-> <<[id |-> "input-1", name |-> "URL", type |-> "string", fieldType |-> "input"],
                    [id |-> "input-2", name |-> "LLM", type |-> "string", fieldType |-> "input"]>>,
       outputs |-> <<[id |-> "output-1", name |-> "Content", type |-> "string", fieldType |-> "output"]>>]
    [] nodeType = "Wikipedia" ->
      [inputs  |-> <<[id |-> "input-1", name |-> "Topic", type |-> "string", fieldType |-> "input"],
                    [id |-> "input-2", name |-> "LLM", type |-> "string", fieldType |-> "input"]>>,
       outputs |-> <<[id |-> "output-1", name |-> "Information", type |-> "string", fieldType |-> "output"]>>]
    [] nodeType = "YouTube" ->
      [inputs  |-> <<[id |-> "input-1", name |-> "Video Query", type |-> "string", fieldType |-> "input"],
                    [id |-> "input-2", name |-> "LLM", type |-> "string", fieldType |-> "input"]>>,
       outputs |-> <<[id |-> "output-1", name |-> "Analysis", type |-> "string", fieldType |-> "output"]>>]
    [] nodeType = "Financial-Analysis" ->
      [inputs  |-> <<[id |-> "input-1", name |-> "Symbol/Query", type |-> "string", fieldType |-> "input"],
                    [id |-> "input-2", name |-> "LLM", type |-> "string", fieldType |-> "input"]>>,
       outputs |-> <<[id |-> "output-1", name |-> "Analysis", type |-> "string", fieldType |-> "output"]>>]

(* The kinds the catalog defines (the keys of nodeTemplates). *)
TemplateKinds ==
  {"End", "Text-Agent", "Voice-Agent", "CSV-Agent",
   "Email-Tool", "Text-Input-Tool", "File-Input-Tool", "Text-Output-Tool",
   "Knowledge-Base", "Web-Search-Tool", "WhatsApp-Tool", "Zoom-Tool",
   "ArXiv-Search", "HackerNews-Search", "Web-Search", "Pandas-Data",
   "DuckDB-SQL", "Calculator", "JSON-Processor", "Python-Code",
   "File-Operations", "Text-Processor", "Web-Scraping", "Wikipedia",
   "YouTube", "Financial-Analysis"}

(* The pattern catalog, in catalog order. nodeConnection and portConnection are
   the strings of the source, character by character, with Arrow for U+2192. *)
workflowPatterns == <<
  [id |-> "email-marketing",
   requiredNodeTypes |-> <<"File-Input-Tool", "CSV-Agent", "Text-Input-Tool", "Text-Agent", "Email-Tool", "End">>,
   connections |-> <<
        [nodeConnection |-> <<"F", "i", "l", "e", "-", "I", "n", "p", "u", "t", "-", "T", "o", "o", "l", Arrow, "C", "S", "V", "-", "A", "g", "e", "n", "t">>,
         portConnection |-> <<"F", "i", "l", "e", Arrow, "F", "i", "l", "e">>],
        [nodeConnection |-> <<"C", "S", "V", "-", "A", "g", "e", "n", "t", Arrow, "T", "e", "x", "t", "-", "A", "g", "e", "n", "t">>,
         portConnection |-> <<"P", "e", "r", "s", "o", "n", "a", "l", " ", "D", "e", "s", "c", "r", "i", "p", "t", "i", "o", "n", Arrow, "T", "o", "o", "l", "s">>],
        [nodeConnection |-> <<"C", "S", "V", "-", "A", "g", "e", "n", "t", Arrow, "E", "m", "a", "i", "l", "-", "T", "o", "o", "l">>,
         portConnection |-> <<"R", "e", "c", "e", "i", "v", "e", "r", " ", "E", "m", "a", "i", "l", "s", Arrow, "R", "e", "c", "e", "i", "v", "e", "r", " ", "E", "m", "a", "i", "l", "s">>],
        [nodeConnection |-> <<"T", "e", "x", "t", "-", "I", "n", "p", "u", "t", "-", "T", "o", "o", "l", Arrow, "T", "e", "x", "t", "-", "A", "g", "e", "n", "t">>,
         portConnection |-> <<"T", "e", "x", "t", Arrow, "I", "n", "s", "t", "r", "u", "c", "t", "i", "o", "n", "s">>],
        [nodeConnection |-> <<"T", "e", "x", "t", "-", "A", "g", "e", "n", "t", Arrow, "E", "m", "a", "i", "l", "-", "T", "o", "o", "l">>,
         portConnection |-> <<"O", "u", "t", "p", "u", "t", Arrow, "E", "m", "a", "i", "l", " ", "D", "e", "s", "c", "r", "i", "p", "t", "i", "o", "n">>],
        [nodeConnection |-> <<"E", "m", "a", "i", "l", "-", "T", "o", "o", "l", Arrow, "E", "n", "d">>,
         portConnection |-> <<"S", "t", "a", "t", "u", "s", Arrow, "E", "n", "d">>]>>,
   endpoint |-> "http://localhost:8000/workflow_agent"],
  [id |-> "marketing-cold-caller",
   requiredNodeTypes |-> <<"File-Input-Tool", "CSV-Agent", "Voice-Agent", "WhatsApp-Tool", "End">>,
   connections |-> <<
        [nodeConnection |-> <<"F", "i", "l", "e", "-", "I", "n", "p", "u", "t", "-", "T", "o", "o", "l", Arrow, "C", "S", "V", "-", "A", "g", "e", "n", "t">>,
         portConnection |-> <<"F", "i", "l", "e", Arrow, "F", "i", "l", "e">>],
        [nodeConnection |-> <<"W", "h", "a", "t", "s", "A", "p", "p", "-", "T", "o", "o", "l", Arrow, "V", "o", "i", "c", "e", "-", "A", "g", "e", "n", "t">>,
         portConnection |-> <<"O", "u", "t", "p", "u", "t", Arrow, "T", "o", "o", "l", "s">>],
        [nodeConnection |-> <<"C", "S", "V", "-", "A", "g", "e", "n", "t", Arrow, "V", "o", "i", "c", "e", "-", "A", "g", "e", "n", "t">>,
         portConnection |-> <<"P", "e", "r", "s", "o", "n", "a", "l", " ", "D", "e", "s", "c", "r", "i", "p", "t", "i", "o", "n", Arrow, "I", "n", "s", "t", "r", "u", "c", "t", "i", "o", "n", "s">>],
        [nodeConnection |-> <<"V", "o", "i", "c", "e", "-", "A", "g", "e", "n", "t", Arrow, "E", "n", "d">>,
         portConnection |-> <<"O", "u", "t", "p", "u", "t", Arrow, "E", "n", "d">>]>>,
   endpoint |-> "http://localhost:8000/voice_agent"],
  [id |-> "csv-agent",
   requiredNodeTypes |-> <<"CSV-Agent", "File-Input-Tool", "Text-Input-Tool", "End">>,
   connections |-> <<
        [nodeConnection |-> <<"F", "i", "l", "e", "-", "I", "n", "p", "u", "t", "-", "T", "o", "o", "l", Arrow, "C", "S", "V", "-", "A", "g", "e", "n", "t">>,
         portConnection |-> <<"F", "i", "l", "e", Arrow, "F", "i", "l", "e">>],
        [nodeConnection |-> <<"T", "e", "x", "t", "-", "I", "n", "p", "u", "t", "-", "T", "o", "o", "l", Arrow, "C", "S", "V", "-", "A", "g", "e", "n", "t">>,
         portConnection |-> <<"T", "e", "x", "t", Arrow, "Q", "u", "e", "r", "y">>],
        [nodeConnection |-> <<"C", "S", "V", "-", "A", "g", "e", "n", "t", Arrow, "E", "n", "d">>,
         portConnection |-> <<"O", "u", "t", "p", "u", "t", Arrow, "E", "n", "d">>]>>,
   endpoint |-> "http://localhost:8000/csv_agent"],
  [id |-> "web-search",
   requiredNodeTypes |-> <<"Web-Search-Tool", "Text-Agent", "Text-Input-Tool", "End">>,
   connections |-> <<
        [nodeConnection |-> <<"T", "e", "x", "t", "-", "I", "n", "p", "u", "t", "-", "T", "o", "o", "l", Arrow, "T", "e", "x", "t", "-", "A", "g", "e", "n", "t">>,
         portConnection |-> <<"T", "e", "x", "t", Arrow, "Q", "u", "e", "r", "y">>],
        [nodeConnection |-> <<"W", "e", "b", "-", "S", "e", "a", "r", "c", "h", "-", "T", "o", "o", "l", Arrow, "T", "e", "x", "t", "-", "A", "g", "e", "n", "t">>,
         portConnection |-> <<"T", "o", "o", "l", Arrow, "T", "o", "o", "l", "s">>],
        [nodeConnection |-> <<"T", "e", "x", "t", "-", "A", "g", "e", "n", "t", Arrow, "E", "n", "d">>,
         portConnection |-> <<"O", "u", "t", "p", "u", "t", Arrow, "E", "n", "d">>]>>,
   endpoint |-> "http://localhost:8000/web_agent"],
  [id |-> "rag",
   requiredNodeTypes |-> <<"Text-Agent", "Text-Input-Tool", "Knowledge-Base", "End">>,
   connections |-> <<
        [nodeConnection |-> <<"T", "e", "x", "t", "-", "I", "n", "p", "u", "t", "-", "T", "o", "o", "l", Arrow, "T", "e", "x", "t", "-", "A", "g", "e", "n", "t">>,
         portConnection |-> <<"T", "e", "x", "t", Arrow, "Q", "u", "e", "r", "y">>],
        [nodeConnection |-> <<"K", "n", "o", "w", "l", "e", "d", "g", "e", "-", "B", "a", "s", "e", Arrow, "T", "e", "x", "t", "-", "A", "g", "e", "n", "t">>,
         portConnection |-> <<"C", "o", "n", "t", "e", "n", "t", Arrow, "T", "o", "o", "l", "s">>],
        [nodeConnection |-> <<"T", "e", "x", "t", "-", "A", "g", "e", "n", "t", Arrow, "E", "n", "d">>,
         portConnection |-> <<"O", "u", "t", "p", "u", "t", Arrow, "E", "n", "d">>]>>,
   endpoint |-> "http://localhost:8000/rag_agent"],
  [id |-> "text-agent",
   requiredNodeTypes |-> <<"Text-Agent", "Text-Input-Tool", "End">>,
   connections |-> <<
        [nodeConnection |-> <<"T", "e", "x", "t", "-", "I", "n", "p", "u", "t", "-", "T", "o", "o", "l", Arrow, "T", "e", "x", "t", "-", "A", "g", "e", "n", "t">>,
         portConnection |-> <<"T", "e", "x", "t", Arrow, "Q", "u", "e", "r", "y">>],
        [nodeConnection |-> <<"T", "e", "x", "t", "-", "A", "g", "e", "n", "t", Arrow, "E", "n", "d">>,
         portConnection |-> <<"O", "u", "t", "p", "u", "t", Arrow, "E", "n", "d">>]>>,
   endpoint |-> "http://localhost:8000/text_agent"],
  [id |-> "zoom-tool",
   requiredNodeTypes |-> <<"Zoom-Tool", "End">>,
   connections |-> <<
        [nodeConnection |-> <<"Z", "o", "o", "m", "-", "T", "o", "o", "l", Arrow, "E", "n", "d">>,
         portConnection |-> <<"O", "u", "t", "p", "u", "t", Arrow, "E", "n", "d">>]>>,
   endpoint |-> "http://localhost:8000/zoom_agent"],
  [id |-> "arxiv-search",
   requiredNodeTypes |-> <<"ArXiv-Search", "End">>,
   connections |-> <<
        [nodeConnection |-> <<"A", "r", "X", "i", "v", "-", "S", "e", "a", "r", "c", "h", Arrow, "E", "n", "d">>,
         portConnection |-> <<"P", "a", "p", "e", "r", "s", Arrow, "E", "n", "d">>]>>,
   endpoint |-> "http://localhost:8000/component/arxiv"],
  [id |-> "hackernews-search",
   requiredNodeTypes |-> <<"HackerNews-Search", "End">>,
   connections |-> <<
        [nodeConnection |-> <<"H", "a", "c", "k", "e", "r", "N", "e", "w", "s", "-", "S", "e", "a", "r", "c", "h", Arrow, "E", "n", "d">>,
         portConnection |-> <<"S", "t", "o", "r", "i", "e", "s", Arrow, "E", "n", "d">>]>>,
   endpoint |-> "http://localhost:8000/component/hackernews"],
  [id |-> "pandas-data",
   requiredNodeTypes |-> <<"Pandas-Data", "End">>,
   connections |-> <<
        [nodeConnection |-> <<"P", "a", "n", "d", "a", "s", "-", "D", "a", "t", "a", Arrow, "E", "n", "d">>,
         portConnection |-> <<"A", "n", "a", "l", "y", "s", "i", "s", Arrow, "E", "n", "d">>]>>,
   endpoint |-> "http://localhost:8000/component/pandas"],
  [id |-> "duckdb-sql",
   requiredNodeTypes |-> <<"DuckDB-SQL", "End">>,
   connections |-> <<
        [nodeConnection |-> <<"D", "u", "c", "k", "D", "B", "-", "S", "Q", "L", Arrow, "E", "n", "d">>,
         portConnection |-> <<"S", "Q", "L", " ", "R", "e", "s", "u", "l", "t", "s", Arrow, "E", "n", "d">>]>>,
   endpoint |-> "http://localhost:8000/component/duckdb"],
  [id |-> "calculator",
   requiredNodeTypes |-> <<"Calculator", "End">>,
   connections |-> <<
        [nodeConnection |-> <<"C", "a", "l", "c", "u", "l", "a", "t", "o", "r", Arrow, "E", "n", "d">>,
         portConnection |-> <<"R", "e", "s", "u", "l", "t", Arrow, "E", "n", "d">>]>>,
   endpoint |-> "http://localhost:8000/component/calculator"],
  [id |-> "text-processor",
   requiredNodeTypes |-> <<"Text-Processor", "End">>,
   connections |-> <<
        [nodeConnection |-> <<"T", "e", "x", "t", "-", "P", "r", "o", "c", "e", "s", "s", "o", "r", Arrow, "E", "n", "d">>,
         portConnection |-> <<"P", "r", "o", "c", "e", "s", "s", "e", "d", " ", "T", "e", "x", "t", Arrow, "E", "n", "d">>]>>,
   endpoint |-> "http://localhost:8000/component/textprocessor"],
  [id |-> "json-processor",
   requiredNodeTypes |-> <<"JSON-Processor", "End">>,
   connections |-> <<
        [nodeConnection |-> <<"J", "S", "O", "N", "-", "P", "r", "o", "c", "e", "s", "s", "o", "r", Arrow, "E", "n", "d">>,
         portConnection |-> <<"P", "r", "o", "c", "e", "s", "s", "e", "d", " ", "J", "S", "O", "N", Arrow, "E", "n", "d">>]>>,
   endpoint |-> "http://localhost:8000/component/json"],
  [id |-> "python-code",
   requiredNodeTypes |-> <<"Python-Code", "End">>,
   connections |-> <<
        [nodeConnection |-> <<"P", "y", "t", "h", "o", "n", "-", "C", "o", "d", "e", Arrow, "E", "n", "d">>,
         portConnection |-> <<"E", "x", "e", "c", "u", "t", "i", "o", "n", " ", "R", "e", "s", "u", "l", "t", Arrow, "E", "n", "d">>]>>,
   endpoint |-> "http://localhost:8000/component/python"],
  [id |-> "file-operations",
   requiredNodeTypes |-> <<"File-Operations", "End">>,
   connections |-> <<
        [nodeConnection |-> <<"F", "i", "l", "e", "-", "O", "p", "e", "r", "a", "t", "i", "o", "n", "s", Arrow, "E", "n", "d">>,
         portConnection |-> <<"R", "e", "s", "u", "l", "t", Arrow, "E", "n", "d">>]>>,
   endpoint |-> "http://localhost:8000/component/file"],
  [id |-> "web-scraping",
   requiredNodeTypes |-> <<"Web-Scraping", "End">>,
   connections |-> <<
        [nodeConnection |-> <<"W", "e", "b", "-", "S", "c", "r", "a", "p", "i", "n", "g", Arrow, "E", "n", "d">>,
         portConnection |-> <<"C", "o", "n", "t", "e", "n", "t", Arrow, "E", "n", "d">>]>>,
   endpoint |-> "http://localhost:8000/component/webscraping"],
  [id |-> "wikipedia",
   requiredNodeTypes |-> <<"Wikipedia", "End">>,
   connections |-> <<
        [nodeConnection |-> <<"W", "i", "k", "i", "p", "e", "d", "i", "a", Arrow, "E", "n", "d">>,
         portConnection |-> <<"I", "n", "f", "o", "r", "m", "a", "t", "i", "o", "n", Arrow, "E", "n", "d">>]>>,
   endpoint |-> "http://localhost:8000/component/wikipedia"],
  [id |-> "youtube",
   requiredNodeTypes |-> <<"YouTube", "End">>,
   connections |-> <<
        [nodeConnection |-> <<"Y", "o", "u", "T", "u", "b", "e", Arrow, "E", "n", "d">>,
         portConnection |-> <<"A", "n", "a", "l", "y", "s", "i", "s", Arrow, "E", "n", "d">>]>>,
   endpoint |-> "http://localhost:8000/component/youtube"],
  [id |-> "financial-analysis",
   requiredNodeTypes |-> <<"Financial-Analysis", "End">>,
   connections |-> <<
        [nodeConnection |-> <<"F", "i", "n", "a", "n", "c", "i", "a", "l", "-", "A", "n", "a", "l", "y", "s", "i", "s", Arrow, "E", "n", "d">>,
         portConnection |-> <<"A", "n", "a", "l", "y", "s", "i", "s", Arrow, "E", "n", "d">>]>>,
   endpoint |-> "http://localhost:8000/component/financial"],
  [id |-> "local-filesystem",
   requiredNodeTypes |-> <<"Local-FileSystem", "End">>,
   connections |-> <<
        [nodeConnection |-> <<"L", "o", "c", "a", "l", "-", "F", "i", "l", "e", "S", "y", "s", "t", "e", "m", Arrow, "E", "n", "d">>,
         portConnection |-> <<"R", "e", "s", "u", "l", "t", Arrow, "E", "n", "d">>]>>,
   endpoint |-> "http://localhost:8000/component/localfs"] >>

(* Every string the matcher reads character by character: the kind names and
   the field names of the catalogs. *)
KnownStrings ==
  {"API Key", "Analysis", "ArXiv-Search", "CSV-Agent",
   "Calculator", "Code Request", "Content", "DuckDB-SQL",
   "Email Description", "Email-Tool", "End", "Execution Result",
   "Expression", "File", "File-Input-Tool", "File-Operations",
   "Financial-Analysis", "HackerNews-Search", "Information", "Instructions",
   "JSON Data", "JSON-Processor", "Knowledge-Base", "LLM",
   "Language", "Local-FileSystem", "Operation", "Output",
   "Pandas-Data", "Papers", "Passkey", "Personal Description",
   "Processed Text", "Python-Code", "Query", "Receiver Emails",
   "Result", "Results", "SQL Results", "STT",
   "Search Engine", "Sender Mail", "Sender's Name", "Status",
   "Stories", "Symbol/Query", "TTS", "Text",
   "Text-Agent", "Text-Input-Tool", "Text-Output-Tool", "Text-Processor",
   "To Phone Number", "Tool", "Tools", "Topic",
   "URL", "Video Query", "Voice-Agent", "Web-Scraping",
   "Web-Search", "Web-Search-Tool", "WhatsApp-Tool", "Wikipedia",
   "YouTube", "Zoom-Tool"}

(* A string as its sequence of characters. *)
CharsOf == [s \in KnownStrings |->
  CASE s = "API Key" -> <<"A", "P", "I", " ", "K", "e", "y">>
    [] s = "Analysis" -> <<"A", "n", "a", "l", "y", "s", "i", "s">>
    [] s = "ArXiv-Search" -> <<"A", "r", "X", "i", "v", "-", "S", "e", "a", "r", "c", "h">>
    [] s = "CSV-Agent" -> <<"C", "S", "V", "-", "A", "g", "e", "n", "t">>
    [] s = "Calculator" -> <<"C", "a", "l", "c", "u", "l", "a", "t", "o", "r">>
    [] s = "Code Request" -> <<"C", "o", "d", "e", " ", "R", "e", "q", "u", "e", "s", "t">>
    [] s = "Content" -> <<"C", "o", "n", "t", "e", "n", "t">>
    [] s = "DuckDB-SQL" -> <<"D", "u", "c", "k", "D", "B", "-", "S", "Q", "L">>
    [] s = "Email Description" -> <<"E", "m", "a", "i", "l", " ", "D", "e", "s", "c", "r", "i", "p", "t", "i", "o", "n">>
    [] s = "Email-Tool" -> <<"E", "m", "a", "i", "l", "-", "T", "o", "o", "l">>
    [] s = "End" -> <<"E", "n", "d">>
    [] s = "Execution Result" -> <<"E", "x", "e", "c", "u", "t", "i", "o", "n", " ", "R", "e", "s", "u", "l", "t">>
    [] s = "Expression" -> <<"E", "x", "p", "r", "e", "s", "s", "i", "o", "n">>
    [] s = "File" -> <<"F", "i", "l", "e">>
    [] s = "File-Input-Tool" -> <<"F", "i", "l", "e", "-", "I", "n", "p", "u", "t", "-", "T", "o", "o", "l">>
    [] s = "File-Operations" -> <<"F", "i", "l", "e", "-", "O", "p", "e", "r", "a", "t", "i", "o", "n", "s">>
    [] s = "Financial-Analysis" -> <<"F", "i", "n", "a", "n", "c", "i", "a", "l", "-", "A", "n", "a", "l", "y", "s", "i", "s">>
    [] s = "HackerNews-Search" -> <<"H", "a", "c", "k", "e", "r", "N", "e", "w", "s", "-", "S", "e", "a", "r", "c", "h">>
    [] s = "Information" -> <<"I", "n", "f", "o", "r", "m", "a", "t", "i", "o", "n">>
    [] s = "Instructions" -> <<"I", "n", "s", "t", "r", "u", "c", "t", "i", "o", "n", "s">>
    [] s = "JSON Data" -> <<"J", "S", "O", "N", " ", "D", "a", "t", "a">>
    [] s = "JSON-Processor" -> <<"J", "S", "O", "N", "-", "P", "r", "o", "c", "e", "s", "s", "o", "r">>
    [] s = "Knowledge-Base" -> <<"K", "n", "o", "w", "l", "e", "d", "g", "e", "-", "B", "a", "s", "e">>
    [] s = "LLM" -> <<"L", "L", "M">>
    [] s = "Language" -> <<"L", "a", "n", "g", "u", "a", "g", "e">>
    [] s = "Local-FileSystem" -> <<"L", "o", "c", "a", "l", "-", "F", "i", "l", "e", "S", "y", "s", "t", "e", "m">>
    [] s = "Operation" -> <<"O", "p", "e", "r", "a", "t", "i", "o", "n">>
    [] s = "Output" -> <<"O", "u", "t", "p", "u", "t">>
    [] s = "Pandas-Data" -> <<"P", "a", "n", "d", "a", "s", "-", "D", "a", "t", "a">>
    [] s = "Papers" -> <<"P", "a", "p", "e", "r", "s">>
    [] s = "Passkey" -> <<"P", "a", "s", "s", "k", "e", "y">>
    [] s = "Personal Description" -> <<"P", "e", "r", "s", "o", "n", "a", "l", " ", "D", "e", "s", "c", "r", "i", "p", "t", "i", "o", "n">>
    [] s = "Processed Text" -> <<"P", "r", "o", "c", "e", "s", "s", "e", "d", " ", "T", "e", "x", "t">>
    [] s = "Python-Code" -> <<"P", "y", "t", "h", "o", "n", "-", "C", "o", "d", "e">>
    [] s = "Query" -> <<"Q", "u", "e", "r", "y">>
    [] s = "Receiver Emails" -> <<"R", "e", "c", "e", "i", "v", "e", "r", " ", "E", "m", "a", "i", "l", "s">>
    [] s = "Result" -> <<"R", "e", "s", "u", "l", "t">>
    [] s = "Results" -> <<"R", "e", "s", "u", "l", "t", "s">>
    [] s = "SQL Results" -> <<"S", "Q", "L", " ", "R", "e", "s", "u", "l", "t", "s">>
    [] s = "STT" -> <<"S", "T", "T">>
    [] s = "Search Engine" -> <<"S", "e", "a", "r", "c", "h", " ", "E", "n", "g", "i", "n", "e">>
    [] s = "Sender Mail" -> <<"S", "e", "n", "d", "e", "r", " ", "M", "a", "i", "l">>
    [] s = "Sender's Name" -> <<"S", "e", "n", "d", "e", "r", "'", "s", " ", "N", "a", "m", "e">>
    [] s = "Status" -> <<"S", "t", "a", "t", "u", "s">>
    [] s = "Stories" -> <<"S", "t", "o", "r", "i", "e", "s">>
    [] s = "Symbol/Query" -> <<"S", "y", "m", "b", "o", "l", "/", "Q", "u", "e", "r", "y">>
    [] s = "TTS" -> <<"T", "T", "S">>
    [] s = "Text" -> <<"T", "e", "x", "t">>
    [] s = "Text-Agent" -> <<"T", "e", "x", "t", "-", "A", "g", "e", "n", "t">>
    [] s = "Text-Input-Tool" -> <<"T", "e", "x", "t", "-", "I", "n", "p", "u", "t", "-", "T", "o", "o", "l">>
    [] s = "Text-Output-Tool" -> <<"T", "e", "x", "t", "-", "O", "u", "t", "p", "u", "t", "-", "T", "o", "o", "l">>
    [] s = "Text-Processor" -> <<"T", "e", "x", "t", "-", "P", "r", "o", "c", "e", "s", "s", "o", "r">>
    [] s = "To Phone Number" -> <<"T", "o", " ", "P", "h", "o", "n", "e", " ", "N", "u", "m", "b", "e", "r">>
    [] s = "Tool" -> <<"T", "o", "o", "l">>
    [] s = "Tools" -> <<"T", "o", "o", "l", "s">>
    [] s = "Topic" -> <<"T", "o", "p", "i", "c">>
    [] s = "URL" -> <<"U", "R", "L">>
    [] s = "Video Query" -> <<"V", "i", "d", "e", "o", " ", "Q", "u", "e", "r", "y">>
    [] s = "Voice-Agent" -> <<"V", "o", "i", "c", "e", "-", "A", "g", "e", "n", "t">>
    [] s = "Web-Scraping" -> <<"W", "e", "b", "-", "S", "c", "r", "a", "p", "i", "n", "g">>
    [] s = "Web-Search" -> <<"W", "e", "b", "-", "S", "e", "a", "r", "c", "h">>
    [] s = "Web-Search-Tool" -> <<"W", "e", "b", "-", "S", "e", "a", "r", "c", "h", "-", "T", "o", "o", "l">>
    [] s = "WhatsApp-Tool" -> <<"W", "h", "a", "t", "s", "A", "p", "p", "-", "T", "o", "o", "l">>
    [] s = "Wikipedia" -> <<"W", "i", "k", "i", "p", "e", "d", "i", "a">>
    [] s = "YouTube" -> <<"Y", "o", "u", "T", "u", "b", "e">>
    [] s = "Zoom-Tool" -> <<"Z", "o", "o", "m", "-", "T", "o", "o", "l">>]

(* The kind names in the order of Array.prototype.sort without a comparator
   (ascending UTF-16 code units). *)
SortedTypeNames == <<
  "ArXiv-Search", "CSV-Agent", "Calculator", "DuckDB-SQL",
  "Email-Tool", "End", "File-Input-Tool", "File-Operations",
  "Financial-Analysis", "HackerNews-Search", "JSON-Processor", "Knowledge-Base",
  "Local-FileSystem", "Pandas-Data", "Python-Code", "Text-Agent",
  "Text-Input-Tool", "Text-Output-Tool", "Text-Processor", "Voice-Agent",
  "Web-Scraping", "Web-Search", "Web-Search-Tool", "WhatsApp-Tool",
  "Wikipedia", "YouTube", "Zoom-Tool" >>

(* String.prototype.toLowerCase on the characters the catalogs use. *)
UpperToLower == [c \in {"A", "B", "C", "D", "E", "F", "G", "H", "I", "J", "K", "L", "M", "N", "O", "P", "Q", "R", "S", "T", "U", "V", "W", "X", "Y", "Z"} |->
  CASE c = "A" -> "a"
    [] c = "B" -> "b"
    [] c = "C" -> "c"
    [] c = "D" -> "d"
    [] c = "E" -> "e"
    [] c = "F" -> "f"
    [] c = "G" -> "g"
    [] c = "H" -> "h"
    [] c = "I" -> "i"
    [] c = "J" -> "j"
    [] c = "K" -> "k"
    [] c = "L" -> "l"
    [] c = "M" -> "m"
    [] c = "N" -> "n"
    [] c = "O" -> "o"
    [] c = "P" -> "p"
    [] c = "Q" -> "q"
    [] c = "R" -> "r"
    [] c = "S" -> "s"
    [] c = "T" -> "t"
    [] c = "U" -> "u"
    [] c = "V" -> "v"
    [] c = "W" -> "w"
    [] c = "X" -> "x"
    [] c = "Y" -> "y"
    [] c = "Z" -> "z"]
LowerOf(c) == IF c \in DOMAIN UpperToLower THEN UpperToLower[c] ELSE c

toLowerCase(cs) == [i \in 1..Len(cs) |-> LowerOf(cs[i])]

\* String.prototype.includes
includes(hay, needle) ==
  \E i \in 1..(Len(hay) - Len(needle) + 1) :
     SubSeq(hay, i, i + Len(needle) - 1) = needle

\* String.prototype.split on the arrow: the pieces between the arrows
RECURSIVE split(_)
split(cs) ==
  IF \A i \in 1..Len(cs) : cs[i] # Arrow
  THEN << cs >>
  ELSE LET i == CHOOSE k \in 1..Len(cs) :
                  cs[k] = Arrow /\ \A j \in 1..(k - 1) : cs[j] # Arrow
       IN  << SubSeq(cs, 1, i - 1) >> \o split(SubSeq(cs, i + 1, Len(cs)))

\* the template literal `${a}→${b}`
joinArrow(a, b) == a \o << Arrow >> \o b

\* the place of a kind name in the order Array.prototype.sort gives
SortRank(t) == CHOOSE i \in 1..Len(SortedTypeNames) : SortedTypeNames[i] = t

\* Array.prototype.sort on a list of kind names
RECURSIVE sort(_)
sort(s) ==
  IF s = << >> THEN << >>
  ELSE LET m == CHOOSE i \in 1..Len(s) :
                  \A j \in 1..Len(s) : SortRank(s[i]) <= SortRank(s[j])
       IN  << s[m] >> \o sort(SubSeq(s, 1, m - 1) \o SubSeq(s, m + 1, Len(s)))

\* [...new Set(list)]: the first occurrence of each value, in order
dedupe(s) ==
  LET first == { i \in 1..Len(s) : \A j \in 1..(i - 1) : s[j] # s[i] }
      place(i) == Cardinality({ j \in first : j <= i })
  IN  [k \in 1..Cardinality(first) |-> s[CHOOSE i \in first : place(i) = k]]

Range(s) == { s[i] : i \in 1..Len(s) }

(***************************************************************************)
(* State.                                                                  *)
(***************************************************************************)
VARIABLES
  nodes,            \* Playground: useState<NodeData[]>
  edges,            \* Playground: useState<EdgeData[]>
  now,              \* the reading Date.now() returns
  effectPending,    \* the invalid-edge cleanup effect is scheduled
  scale,            \* Workspace: zoom factor
  offset,           \* Workspace: pan offset
  isPanning,        \* Workspace: a pan is in progress
  lastMousePos,     \* Workspace: lastMousePos ref
  connectionStart,  \* Workspace: origin of the connection being dragged
  mousePosition,    \* Workspace: pointer, in canvas space
  snapFieldId,      \* Workspace: the port the preview snaps to
  draggingNodeRef,  \* Workspace: draggingNodeRef, the node being dragged
  listeners,        \* the mousemove/mouseup listener pairs on the document
  viewSteps,        \* zoom, pan and node-drag steps taken (bounds the runs)
  isExecuting,      \* Playground: an execute is in flight
  executionResult,  \* Playground: the result of the last execute, or Null
  request,          \* the dispatch request that is outstanding, or Null
  inFlight,         \* the number of requests sent and not yet settled
  templates,        \* Playground: the saved templates (d2k-templates)
  lastEvent         \* history: the handler that ran last and what it saw

vars == << nodes, edges, now, effectPending, scale, offset, isPanning,
           lastMousePos, connectionStart, mousePosition, snapFieldId,
           draggingNodeRef,
           listeners, viewSteps, isExecuting, executionResult, request,
           inFlight, templates,
           lastEvent >>

graphVars == << nodes, edges, effectPending >>
viewVars == << scale, offset, isPanning, lastMousePos, viewSteps >>
dragVars ==
  << connectionStart, mousePosition, snapFieldId, draggingNodeRef, listeners >>
execVars == << isExecuting, executionResult, request, inFlight >>

Null == [null |-> TRUE]

(***************************************************************************)
(* Viewport transform.                                                     *)
(***************************************************************************)
MIN_ZOOM == << 1, 2 >>
MAX_ZOOM == << 2, 1 >>

\* the bounding rectangle of the workspace element (its left and top are the
\* origin of the client coordinates used here)
WorkspaceRect == [width |-> RInt(1000), height |-> RInt(600)]

\* the size of the transform container
TransformSize == [width |-> RInt(3500), height |-> RInt(3500)]

\* transform: scale(s) translate(ox, oy), origin top-left
toScreen(c, sc, off) ==
  Pt(RMul(RAdd(c.x, off.x), sc), RMul(RAdd(c.y, off.y), sc))

\* the offset taken off before the division by the scale
toCanvasOffsetFirst(s, sc, off) ==
  Pt(RDiv(RSub(s.x, off.x), sc), RDiv(RSub(s.y, off.y), sc))

\* (clientX - workspaceRect.left) / scale - offset.x
toCanvas(s, sc, off) ==
  Pt(RSub(RDiv(s.x, sc), off.x), RSub(RDiv(s.y, sc), off.y))

\* the offset the mount effect sets, at the initial scale
InitialOffset(sc) ==
  Pt(RAdd(RDiv(RDiv(RSub(WorkspaceRect.width, RMul(TransformSize.width, sc)),
                    RInt(2)), sc), RInt(500)),
     RDiv(RDiv(RSub(WorkspaceRect.height, RMul(TransformSize.height, sc)),
               RInt(2)), sc))

\* the scale kept above MIN_ZOOM only
ClampScaleFromBelow(s) == RMax(s, MIN_ZOOM)

\* Math.min(Math.max(scale + delta, MIN_ZOOM), MAX_ZOOM)
ClampScale(s) == RMin(RMax(s, MIN_ZOOM), MAX_ZOOM)

\* the scale and offset handleZoom and the wheel handler compute
ZoomedView(sc, off, delta) ==
  LET newScale == ClampScale(RAdd(sc, delta))
      shift == RDiv(RNeg(RSub(newScale, sc)), newScale)
  IN  [scale |-> newScale,
       offset |-> Pt(RAdd(shift, off.x), RAdd(shift, off.y))]

\* the viewport after k clicks on a zoom button from the mounted view
RECURSIVE ViewAfter(_, _)
ViewAfter(k, delta) ==
  IF k = 0 THEN [scale |-> RInt(1), offset |-> InitialOffset(RInt(1))]
  ELSE LET v == ViewAfter(k - 1, delta)
       IN  ZoomedView(v.scale, v.offset, delta)

ZoomStep == << 1, 10 >>

(***************************************************************************)
(* Graph model.                                                            *)
(***************************************************************************)
NodeId(t) == << "node", t >>
EdgeId(t) == << "edge", t >>
\* `${field.id}-${Date.now()}`
FieldId(catalogId, t) == [field |-> catalogId, stamp |-> t]

Stamp(fields, t) ==
  [i \in 1..Len(fields) |-> [fields[i] EXCEPT !.id = FieldId(@, t)]]

\* the node handleAddNode and handleNodeDrop build
NewNode(nodeType, position, t) ==
  [id |-> NodeId(t), type |-> nodeType, position |-> position,
   data |-> [label   |-> nodeType,
             inputs  |-> Stamp(nodeTemplates(nodeType).inputs, t),
             outputs |-> Stamp(nodeTemplates(nodeType).outputs, t)]]

NodeIds(ns) == { ns[i].id : i \in 1..Len(ns) }

\* edges.some(e => same source, target, sourceHandle, targetHandle)
SameTuple(e, f) ==
  /\ e.source = f.source /\ e.target = f.target
  /\ e.sourceHandle = f.sourceHandle /\ e.targetHandle = f.targetHandle

\* handleAddEdge without its duplicate check
edgeExistsUnchecked(es, edge) == FALSE

edgeExists(es, edge) == \E i \in 1..Len(es) : SameTuple(es[i], edge)

\* the setEdges calls handleAddEdge makes, as the list of the values it sets
\* (none, or one); es is the edge list of the render that created the handler
handleAddEdge(es, edge, t) ==
  IF edgeExists(es, edge) THEN << >>
  ELSE << Append(es, [edge EXCEPT !.id = EdgeId(t)]) >>

\* the value handleRemoveEdge passes to setEdges
handleRemoveEdge(es, edgeId) == SelectSeq(es, LAMBDA e : e.id # edgeId)

\* edges.filter(edge => nodeIds.has(edge.source) && nodeIds.has(edge.target))
validEdges(ns, es) ==
  SelectSeq(es, LAMBDA e : e.source \in NodeIds(ns) /\ e.target \in NodeIds(ns))

\* the edges the node's remove button collects
connectedEdges(es, nodeId) ==
  SelectSeq(es, LAMBDA e : e.source = nodeId \/ e.target = nodeId)

\* the edge list after the remove button's onRemoveEdge calls: every call
\* filters the edge list of the same render, and the last value set is kept
edgesAfterRemoveCalls(es, nodeId) ==
  LET ce == connectedEdges(es, nodeId)
      calls == [k \in 1..Len(ce) |-> handleRemoveEdge(es, ce[k].id)]
  IN  IF calls = << >> THEN es ELSE calls[Len(calls)]

(***************************************************************************)
(* Port anchors.                                                           *)
(***************************************************************************)
\* where a node's body puts its port dots, relative to the node's position:
\* the input rows first, the output rows below them
FieldLayout == [inputX |-> 50, outputX |-> 350, firstY |-> 100, rowHeight |-> 60]

InputAnchor(node, k) ==
  Pt(RAdd(node.position.x, RInt(FieldLayout.inputX)),
     RAdd(node.position.y, RInt(FieldLayout.firstY + FieldLayout.rowHeight * k)))

OutputAnchor(node, k) ==
  Pt(RAdd(node.position.x, RInt(FieldLayout.outputX)),
     RAdd(node.position.y,
          RInt(FieldLayout.firstY
               + FieldLayout.rowHeight * (Len(node.data.inputs) + k))))

\* the elements carrying data-field-id of one node, in document order
NodeFields(node) ==
  [k \in 1..Len(node.data.inputs) |->
     [fieldId |-> node.data.inputs[k].id, nodeId |-> node.id,
      fieldType |-> "input", handlerType |-> node.data.inputs[k].fieldType,
      anchor |-> InputAnchor(node, k)]]
  \o
  [k \in 1..Len(node.data.outputs) |->
     [fieldId |-> node.data.outputs[k].id, nodeId |-> node.id,
      fieldType |-> "output", handlerType |-> "output",
      anchor |-> OutputAnchor(node, k)]]

\* document.querySelectorAll("[data-field-id]")
RECURSIVE DomFields(_)
DomFields(ns) ==
  IF ns = << >> THEN << >>
  ELSE DomFields(SubSeq(ns, 1, Len(ns) - 1)) \o NodeFields(ns[Len(ns)])

\* document.querySelector(`[data-field-id="${fid}"]`): the first match, or Null
querySelectorField(ns, fid) ==
  LET dom == DomFields(ns)
  IN  IF \E i \in 1..Len(dom) : dom[i].fieldId = fid
      THEN dom[CHOOSE i \in 1..Len(dom) :
                 dom[i].fieldId = fid /\ \A j \in 1..(i - 1) : dom[j].fieldId # fid]
      ELSE Null

\* the fieldPositions map as Object.entries lists it: one entry per field id
\* in the order the ids first occur, holding the position written last
updateFieldPositions(ns, sc, off) ==
  LET dom == DomFields(ns)
      keys == dedupe([i \in 1..Len(dom) |-> dom[i].fieldId])
      lastOf(fid) == CHOOSE i \in 1..Len(dom) :
                       dom[i].fieldId = fid
                       /\ \A j \in (i + 1)..Len(dom) : dom[j].fieldId # fid
  IN  [k \in 1..Len(keys) |->
         [fieldId |-> keys[k],
          pos |-> toCanvas(toScreen(dom[lastOf(keys[k])].anchor, sc, off), sc, off)]]

DistSq(p, q) ==
  LET dx == RSub(p.x, q.x)
      dy == RSub(p.y, q.y)
  IN  RAdd(RMul(dx, dx), RMul(dy, dy))

\* 40 / scale
snapDistance(sc) == RDiv(RInt(40), sc)

\* the mousemove handler without the snap distance: the nearest entry wins
snapCandidateAnyDistance(fp, m, sc) ==
  IF fp = << >> THEN Null
  ELSE fp[CHOOSE i \in 1..Len(fp) :
            \A j \in 1..Len(fp) :
               \/ RLt(DistSq(fp[i].pos, m), DistSq(fp[j].pos, m))
               \/ (DistSq(fp[i].pos, m) = DistSq(fp[j].pos, m) /\ i <= j)].fieldId

\* the candidate the connection drag's mousemove handler picks: the nearest
\* entry within the snap distance, the earlier entry on a tie; Null if none
snapCandidate(fp, m, sc) ==
  LET within(i) == RLe(DistSq(fp[i].pos, m), RMul(snapDistance(sc), snapDistance(sc)))
      best(i) == /\ within(i)
                 /\ \A j \in 1..Len(fp) :
                      within(j) =>
                        \/ RLt(DistSq(fp[i].pos, m), DistSq(fp[j].pos, m))
                        \/ (DistSq(fp[i].pos, m) = DistSq(fp[j].pos, m) /\ i <= j)
  IN  IF \E i \in 1..Len(fp) : within(i)
      THEN fp[CHOOSE i \in 1..Len(fp) : best(i)].fieldId
      ELSE Null

(***************************************************************************)
(* Inputs.                                                                 *)
(***************************************************************************)
\* the kinds picked from the sidebar
GraphKinds == { "Text-Input-Tool", "Calculator" }

\* where a dragged sidebar item is dropped, in client coordinates
DropPoints == { IntPt(900, 100) }

\* where the pointer is moved to, relative to a port's dot, in client pixels:
\* on the dot, on the rim of the snap circle, just outside it
PointerDeltas == { IntPt(0, 0), IntPt(40, 0), IntPt(41, 0) }
\* the pointer is moved onto a port's dot
OnTheDot == { IntPt(0, 0) }

\* the ways a node is dragged, in client pixels: not at all, right and down
NodeDragWays == { IntPt(0, 0), IntPt(30, 20) }

\* the viewport a graph is edited in: the mounted view
GraphViews == { ViewAfter(0, ZoomStep) }

\* the client points the pointer is moved to while a port is dragged
PointerTargets(ns, sc, off, deltas) ==
  LET dom == DomFields(ns)
  IN  { LET s == toScreen(dom[i].anchor, sc, off)
        IN  Pt(RAdd(s.x, d.x), RAdd(s.y, d.y)) :
        i \in 1..Len(dom), d \in deltas }

(***************************************************************************)
(* Playground handlers.                                                    *)
(***************************************************************************)
\* no handler runs while an effect of the last commit is still to run
Ready == ~effectPending

\* the pointer is free: a click or a drop is not delivered during a drag
PointerFree == listeners = << >>

\* getCurrentViewportCenter: the workspace centre in canvas coordinates, read
\* off the transform matrix (e = scale * offset.x, f = scale * offset.y)
getCurrentViewportCenter(sc, off) ==
  LET e == RMul(sc, off.x)
      f == RMul(sc, off.y)
  IN  Pt(RDiv(RSub(RDiv(WorkspaceRect.width, RInt(2)), e), sc),
         RDiv(RSub(RDiv(WorkspaceRect.height, RInt(2)), f), sc))

\* the clock advances
Tick ==
  /\ now < MaxClock
  /\ now' = now + 1
  /\ UNCHANGED << execVars, templates, graphVars, viewVars, dragVars, lastEvent >>

\* handleAddNode: a click on a sidebar item
AddNode ==
  /\ Ready /\ PointerFree
  /\ Len(nodes) < MaxNodes
  /\ \E nodeType \in GraphKinds :
       nodes' = Append(nodes, NewNode(nodeType, getCurrentViewportCenter(scale, offset), now))
  /\ effectPending' = TRUE
  /\ lastEvent' = [op |-> "addNode"]
  /\ UNCHANGED << execVars, templates, edges, now, viewVars, dragVars >>

\* handleDrop and handleNodeDrop: a sidebar item dropped on the workspace
NodeDrop ==
  /\ Ready /\ PointerFree
  /\ Len(nodes) < MaxNodes
  /\ \E nodeType \in GraphKinds, client \in DropPoints :
       nodes' = Append(nodes, NewNode(nodeType, toCanvas(client, scale, offset), now))
  /\ effectPending' = TRUE
  /\ lastEvent' = [op |-> "nodeDrop"]
  /\ UNCHANGED << execVars, templates, edges, now, viewVars, dragVars >>

\* the remove button of a node: onRemoveEdge for every connected edge, then
\* setNodes without the node
RemoveClick ==
  /\ \E i \in 1..Len(nodes) :
       /\ edges' = edgesAfterRemoveCalls(edges, nodes[i].id)
       /\ nodes' = SelectSeq(nodes, LAMBDA n : n.id # nodes[i].id)
       /\ lastEvent' = [op |-> "removeNode", nodeId |-> nodes[i].id,
                        connected |-> Len(connectedEdges(edges, nodes[i].id)),
                        edgesBefore |-> Len(edges)]
  /\ effectPending' = TRUE
  /\ UNCHANGED << execVars, templates, now, viewVars, dragVars >>

\* the remove button clicked with the pointer free
RemoveNode ==
  /\ Ready /\ PointerFree
  /\ RemoveClick

\* the remove button activated while a drag is in progress (from the
\* keyboard: the pointer is held down elsewhere)
RemoveNodeMidDrag ==
  /\ Ready /\ ~PointerFree
  /\ RemoveClick

\* the effect on [nodes.length, node ids]: drop the edges of missing nodes
CleanupEffect ==
  /\ effectPending
  /\ edges' = IF validEdges(nodes, edges) # edges
              THEN validEdges(nodes, edges) ELSE edges
  /\ effectPending' = FALSE
  /\ lastEvent' = [op |-> "cleanup"]
  /\ UNCHANGED << execVars, templates, nodes, now, viewVars, dragVars >>

\* an edge is drawn (and can be clicked) when both its ends have an anchor
Drawn(edge) ==
  LET fp == updateFieldPositions(nodes, scale, offset)
      ids == { fp[k].fieldId : k \in 1..Len(fp) }
  IN  edge.sourceHandle \in ids /\ edge.targetHandle \in ids

\* a click on an edge's hit path: handleRemoveEdge
EdgeClick ==
  /\ Ready /\ PointerFree
  /\ \E i \in 1..Len(edges) :
       /\ Drawn(edges[i])
       /\ edges' = handleRemoveEdge(edges, edges[i].id)
  /\ lastEvent' = [op |-> "removeEdge"]
  /\ UNCHANGED << execVars, templates, nodes, now, effectPending, viewVars, dragVars >>

(***************************************************************************)
(* Workspace: connection drag.                                             *)
(***************************************************************************)
\* the mouse buttons: left, middle, right
Buttons == { 0, 1, 2 }
LeftButton == { 0 }

\* the nodes whose elements take no pointer events: a node being dragged has
\* style.pointerEvents = "none" until its mouseup
Inert(ls) == { ls[i].nodeId : i \in { j \in 1..Len(ls) : ls[j].kind = "node" } }

\* handleFieldMouseDown on a port dot, with any button (e.button is not
\* read); the press stops at the dot (stopPropagation). A press it does not
\* accept sets nothing; the listeners it registers keep the values of this
\* render
FieldMouseDown(buttons, limit) ==
  /\ Ready
  /\ Len(listeners) < limit
  /\ Len(edges) < MaxEdges
  /\ \E button \in buttons, i \in 1..Len(DomFields(nodes)) :
       LET f == DomFields(nodes)[i]
           client == toScreen(f.anchor, scale, offset)
           accepted == \/ f.handlerType = "output"
                       \/ /\ f.handlerType = "input"
                          /\ connectionStart # Null
                          /\ connectionStart.type = "output"
       IN  /\ f.nodeId \notin Inert(listeners)
           /\ IF accepted
              THEN /\ mousePosition' = toCanvas(client, scale, offset)
                   /\ connectionStart' =
                        [nodeId |-> f.nodeId, fieldId |-> f.fieldId, type |-> f.handlerType]
                   /\ listeners' = Append(listeners,
                        [kind |-> "conn", nodeId |-> f.nodeId, fieldId |-> f.fieldId,
                         type |-> f.handlerType, scale |-> scale, offset |-> offset,
                         fieldPositions |-> updateFieldPositions(nodes, scale, offset),
                         edges |-> edges, currentSnapCandidate |-> Null])
              ELSE UNCHANGED << mousePosition, connectionStart, listeners >>
           /\ lastEvent' = [op |-> "fieldMouseDown", button |-> button,
                            nodeId |-> f.nodeId, fieldId |-> f.fieldId,
                            fieldType |-> f.fieldType]
  /\ UNCHANGED << execVars, templates, graphVars, now, viewVars, snapFieldId, draggingNodeRef >>

\* what one listener's mousemove handler does with the pointer at client
movedListener(l, client) ==
  IF l.kind = "conn"
  THEN [l EXCEPT !.currentSnapCandidate =
          snapCandidate(l.fieldPositions, toCanvas(client, l.scale, l.offset), l.scale)]
  ELSE l

ConnIndexes(ls) == { i \in 1..Len(ls) : ls[i].kind = "conn" }
PanIndexes(ls) == { i \in 1..Len(ls) : ls[i].kind = "pan" }
Last(S) == CHOOSE i \in S : \A j \in S : j <= i
First(S) == CHOOSE i \in S : \A j \in S : i <= j

\* a mousemove on the document: every registered mousemove listener runs
MouseMoveTo(client) ==
  /\ listeners' = [i \in 1..Len(listeners) |-> movedListener(listeners[i], client)]
  /\ IF ConnIndexes(listeners) # {}
     THEN LET l == listeners'[Last(ConnIndexes(listeners))]
          IN  /\ mousePosition' = toCanvas(client, l.scale, l.offset)
              /\ snapFieldId' = l.currentSnapCandidate
     ELSE UNCHANGED << mousePosition, snapFieldId >>
  /\ IF PanIndexes(listeners) # {}
     THEN LET l == listeners[First(PanIndexes(listeners))]
          IN  /\ offset' = Pt(RAdd(offset.x, RDiv(RSub(client.x, lastMousePos.x), l.scale)),
                              RAdd(offset.y, RDiv(RSub(client.y, lastMousePos.y), l.scale)))
              /\ lastMousePos' = client
     ELSE UNCHANGED << offset, lastMousePos >>

\* the pointer moves over the canvas while a port is dragged
ConnMouseMove(deltas) ==
  /\ Ready
  /\ ConnIndexes(listeners) # {}
  /\ \E client \in PointerTargets(nodes, scale, offset, deltas) : MouseMoveTo(client)
  /\ lastEvent' = [op |-> "mouseMove"]
  /\ UNCHANGED << execVars, templates, graphVars, now, scale, isPanning, viewSteps, connectionStart,
                  draggingNodeRef >>

\* the edge with the drag's origin as its source, whatever its direction
connectionEdgeFromOrigin(l, elem) ==
  [id |-> "temp-id", source |-> l.nodeId, sourceHandle |-> l.fieldId,
   target |-> elem.nodeId, targetHandle |-> elem.fieldId]

\* the edge handed to onAddEdge for a drag from l's origin released on elem:
\* source and sourceHandle are the origin's when the origin is an output,
\* and the target element's otherwise
connectionEdge(l, elem) ==
  IF l.type = "output"
  THEN [id |-> "temp-id", source |-> l.nodeId,
        sourceHandle |-> l.fieldId, target |-> elem.nodeId,
        targetHandle |-> elem.fieldId]
  ELSE [id |-> "temp-id", source |-> elem.nodeId,
        sourceHandle |-> elem.fieldId, target |-> l.nodeId,
        targetHandle |-> l.fieldId]

\* what the connection listener's mouseup handler finds and proposes:
\* outcome names the branch taken, edge the candidate handed to onAddEdge
released(l, ns) ==
  LET cand == l.currentSnapCandidate
      elem == IF cand = Null THEN Null ELSE querySelectorField(ns, cand)
  IN  IF cand = Null THEN [outcome |-> "none"]
      ELSE IF elem = Null THEN [outcome |-> "missing"]
      ELSE IF ~ \/ (l.type = "output" /\ elem.fieldType = "input")
                \/ (l.type = "input" /\ elem.fieldType = "output")
           THEN [outcome |-> "direction"]
      ELSE IF elem.nodeId = l.nodeId THEN [outcome |-> "sameNode"]
      ELSE [outcome |-> "proposed", edge |-> connectionEdge(l, elem)]

\* the setEdges calls the listener's mouseup handler makes through onAddEdge
setEdgesOf(l, ns, t) ==
  IF l.kind # "conn" THEN << >>
  ELSE LET r == released(l, ns)
       IN  IF r.outcome = "proposed" THEN handleAddEdge(l.edges, r.edge, t)
           ELSE << >>

\* the onAddEdge calls of one listener's mouseup handler, each with the
\* direction of the drag's origin
proposalsOf(l, ns) ==
  IF l.kind # "conn" THEN << >>
  ELSE LET r == released(l, ns)
       IN  IF r.outcome = "proposed"
           THEN << [origin |-> l.type, edge |-> r.edge] >>
           ELSE << >>

\* how the release of one listener ended
outcomeOf(l, ns, t) ==
  IF l.kind # "conn" THEN l.kind
  ELSE LET r == released(l, ns)
       IN  IF r.outcome # "proposed" THEN r.outcome
           ELSE IF setEdgesOf(l, ns, t) = << >> THEN "duplicate" ELSE "added"

NodeIndexes(ls) == { i \in 1..Len(ls) : ls[i].kind = "node" }

\* the setNodes updater of one node listener's mouseup handler, with the
\* pointer released at client: the dragged node moves by the way the pointer
\* went, divided by the scale
droppedNodes(ns, l, client) ==
  [i \in 1..Len(ns) |->
     IF ns[i].id = l.nodeId
     THEN [ns[i] EXCEPT !.position =
             Pt(RAdd(l.startNode.x, RDiv(RSub(client.x, l.start.x), l.scale)),
                RAdd(l.startNode.y, RDiv(RSub(client.y, l.start.y), l.scale)))]
     ELSE ns[i]]

\* the setNodes updaters of the node listeners, applied one after the other
RECURSIVE nodesAfterDrop(_, _, _)
nodesAfterDrop(ns, ls, client) ==
  IF ls = << >> THEN ns
  ELSE nodesAfterDrop(IF Head(ls).kind = "node"
                      THEN droppedNodes(ns, Head(ls), client) ELSE ns,
                      Tail(ls), client)

\* the client points the pointer is released at: where a node drag started,
\* moved by one of the ways a node is dragged
ReleasePoints(ls) ==
  IF NodeIndexes(ls) = {} THEN { IntPt(0, 0) }
  ELSE { Pt(RAdd(ls[i].start.x, d.x), RAdd(ls[i].start.y, d.y)) :
           i \in NodeIndexes(ls), d \in NodeDragWays }

\* a mouseup on the document: every registered mouseup listener runs and
\* removes itself; of the edge lists set in this batch the last one is kept
MouseUp ==
  /\ Ready
  /\ listeners # << >>
  /\ LET setters == { i \in ConnIndexes(listeners) :
                        setEdgesOf(listeners[i], nodes, now) # << >> }
     IN  edges' = IF setters = {} THEN edges
                  ELSE setEdgesOf(listeners[Last(setters)], nodes, now)[1]
  /\ IF ConnIndexes(listeners) # {}
     THEN connectionStart' = Null /\ snapFieldId' = Null
     ELSE UNCHANGED << connectionStart, snapFieldId >>
  /\ IF PanIndexes(listeners) # {}
     THEN isPanning' = FALSE
     ELSE UNCHANGED isPanning
  /\ IF NodeIndexes(listeners) # {}
     THEN draggingNodeRef' = Null
     ELSE UNCHANGED draggingNodeRef
  /\ \E client \in ReleasePoints(listeners) :
       nodes' = nodesAfterDrop(nodes, listeners, client)
  /\ listeners' = << >>
  /\ lastEvent' = [op |-> "mouseUp",
                   outcomes |-> [i \in 1..Len(listeners) |->
                                   outcomeOf(listeners[i], nodes, now)],
                   proposals |-> [i \in 1..Len(listeners) |->
                                    proposalsOf(listeners[i], nodes)]]
  /\ UNCHANGED << execVars, templates, now, effectPending, scale, offset, lastMousePos,
                  viewSteps, mousePosition >>

(***************************************************************************)
(* The graph editor: nodes, edges and connection drags in a fixed view.    *)
(***************************************************************************)
InitGraph ==
  /\ nodes = << >>
  /\ edges = << >>
  /\ now = 1
  /\ effectPending = FALSE
  /\ \E v \in GraphViews : scale = v.scale /\ offset = v.offset
  /\ isPanning = FALSE
  /\ lastMousePos = IntPt(0, 0)
  /\ connectionStart = Null
  /\ mousePosition = IntPt(0, 0)
  /\ snapFieldId = Null
  /\ draggingNodeRef = Null
  /\ listeners = << >>
  /\ viewSteps = 0
  /\ isExecuting = FALSE
  /\ executionResult = Null
  /\ request = Null
  /\ inFlight = 0
  /\ templates = << >>
  /\ lastEvent = [op |-> "mount"]

Next ==
  \/ Tick
  \/ AddNode
  \/ NodeDrop
  \/ RemoveNode
  \/ CleanupEffect
  \/ EdgeClick
  \/ FieldMouseDown(LeftButton, MaxListeners)
  \/ ConnMouseMove(OnTheDot)
  \/ MouseUp

Spec == InitGraph /\ [][Next]_vars


(***************************************************************************)
(* Connection drags over a built graph, at several zoom levels.            *)
(***************************************************************************)
\* the mounted view, in which the graph below is built
MountedView == ViewAfter(0, ZoomStep)

\* the views the drags happen in: the mounted view, zoomed all the way out
\* (scale 1/2) and zoomed in three clicks (scale 13/10)
DragViews ==
  { MountedView, ViewAfter(5, RNeg(ZoomStep)), ViewAfter(3, ZoomStep) }

\* a Text-Input-Tool added from the sidebar at reading 1 and a Calculator
\* dropped on the canvas at reading 2
DragNodes ==
  << NewNode("Text-Input-Tool",
             getCurrentViewportCenter(MountedView.scale, MountedView.offset), 1),
     NewNode("Calculator",
             toCanvas(IntPt(900, 100), MountedView.scale, MountedView.offset), 2) >>

\* the edge lists the drags start from: none, or the Text-Input-Tool's output
\* connected to the Calculator's first input at reading 3
DragEdges ==
  { << >>,
    << [id |-> EdgeId(3),
        source |-> DragNodes[1].id,
        sourceHandle |-> DragNodes[1].data.outputs[1].id,
        target |-> DragNodes[2].id,
        targetHandle |-> DragNodes[2].data.inputs[1].id] >> }

InitDrag ==
  /\ nodes = DragNodes
  /\ edges \in DragEdges
  /\ now = 3
  /\ effectPending = FALSE
  /\ \E v \in DragViews : scale = v.scale /\ offset = v.offset
  /\ isPanning = FALSE
  /\ lastMousePos = IntPt(0, 0)
  /\ connectionStart = Null
  /\ mousePosition = IntPt(0, 0)
  /\ snapFieldId = Null
  /\ draggingNodeRef = Null
  /\ listeners = << >>
  /\ viewSteps = 0
  /\ isExecuting = FALSE
  /\ executionResult = Null
  /\ request = Null
  /\ inFlight = 0
  /\ templates = << >>
  /\ lastEvent = [op |-> "mount"]

NextDrag ==
  \/ FieldMouseDown(LeftButton, MaxListeners)
  \/ ConnMouseMove(PointerDeltas)
  \/ MouseUp

SpecDrag == InitDrag /\ [][NextDrag]_vars

(***************************************************************************)
(* Workspace: zoom and pan.                                                *)
(***************************************************************************)
\* the wheel event's deltaY: scrolling up, sideways only, down
WheelDeltas == { -100, 0, 100 }

\* the client points a pan starts at and moves to
PanPoints == { IntPt(500, 300), IntPt(520, 290) }

\* handleZoom and handleWheelEvent: both set the clamped scale and shift the
\* offset by -(newScale - scale) / newScale
Zoom(op, delta) ==
  /\ viewSteps < MaxViewSteps
  /\ LET v == ZoomedView(scale, offset, delta)
     IN  scale' = v.scale /\ offset' = v.offset
  /\ viewSteps' = viewSteps + 1
  /\ lastEvent' = [op |-> op, delta |-> delta]
  /\ UNCHANGED << execVars, templates, graphVars, now, isPanning, lastMousePos, dragVars >>

\* a click on the + or the - button
ZoomButton ==
  /\ Ready /\ PointerFree
  /\ \E delta \in { ZoomStep, RNeg(ZoomStep) } : Zoom("zoom", delta)

\* a wheel event over the workspace: deltaY > 0 ? -0.1 : 0.1
Wheel ==
  /\ Ready
  /\ \E deltaY \in WheelDeltas :
       Zoom("wheel", IF deltaY > 0 THEN RNeg(ZoomStep) ELSE ZoomStep)

\* handlePanStart: a press that reaches the workspace element, which is a
\* press on the empty canvas (a node and a port dot stop the propagation of
\* theirs, so closest("[data-node-id]") and closest("[data-field-id]") find
\* nothing); the listeners it registers keep the scale of this render
PanStart(buttons, limit) ==
  /\ Ready
  /\ Len(listeners) < limit
  /\ \E button \in buttons, client \in PanPoints :
       /\ IF button = 1 \/ button = 0
          THEN /\ isPanning' = TRUE
               /\ lastMousePos' = client
               /\ listeners' = Append(listeners, [kind |-> "pan", scale |-> scale])
          ELSE UNCHANGED << isPanning, lastMousePos, listeners >>
       /\ lastEvent' = [op |-> "panStart", button |-> button]
  /\ UNCHANGED << execVars, templates, graphVars, now, scale, offset, viewSteps, connectionStart,
                  mousePosition, snapFieldId, draggingNodeRef >>

\* the pointer moves while the canvas is dragged
PanMouseMove ==
  /\ Ready
  /\ PanIndexes(listeners) # {}
  /\ viewSteps < MaxViewSteps
  /\ \E client \in PanPoints : client # lastMousePos /\ MouseMoveTo(client)
  /\ viewSteps' = viewSteps + 1
  /\ lastEvent' = [op |-> "mouseMove"]
  /\ UNCHANGED << execVars, templates, graphVars, now, scale, isPanning, connectionStart,
                  draggingNodeRef >>

(***************************************************************************)
(* The viewport: zoom, pan and drops on a canvas that holds one node.      *)
(***************************************************************************)
\* one step of the way to the largest scale: a click on +, on -, or a pan by
\* the same number of pixels in x and y
ViewStep(v, step) ==
  IF step[1] = "zoom" THEN ZoomedView(v.scale, v.offset, step[2])
  ELSE [scale |-> v.scale,
        offset |-> Pt(RAdd(v.offset.x, RDiv(RInt(step[2]), v.scale)),
                      RAdd(v.offset.y, RDiv(RInt(step[2]), v.scale)))]

RECURSIVE ViewAlong(_, _)
ViewAlong(v, steps) ==
  IF steps = << >> THEN v
  ELSE ViewAlong(ViewStep(v, Head(steps)), Tail(steps))

ZoomIn == << "zoom", ZoomStep >>
ZoomOut == << "zoom", RNeg(ZoomStep) >>
PanBy(d) == << "pan", d >>

\* the mounted view zoomed all the way in, the pans in between keeping the
\* offset a multiple of 1/4; the way there, in four legs
ZoomedInLeg1 ==
  ViewAlong(MountedView,
    << ZoomIn, PanBy(-1), ZoomOut, ZoomIn, PanBy(-1), ZoomOut, ZoomIn >>)
ZoomedInLeg2 ==
  ViewAlong(ZoomedInLeg1,
    << PanBy(-1), ZoomIn, PanBy(1), ZoomIn, PanBy(4), ZoomIn, PanBy(-2) >>)
ZoomedInLeg3 ==
  ViewAlong(ZoomedInLeg2,
    << ZoomIn, PanBy(1), ZoomIn, ZoomIn, PanBy(-5), ZoomOut, PanBy(-2) >>)
ZoomedInView ==
  ViewAlong(ZoomedInLeg3,
    << ZoomIn, PanBy(-5), ZoomIn, PanBy(1), ZoomIn, PanBy(2), ZoomIn >>)

\* the mounted view zoomed all the way out
ZoomedOutView == ViewAfter(5, RNeg(ZoomStep))

ViewInits == { MountedView, ZoomedOutView, ZoomedInView }

InitView ==
  /\ nodes = << DragNodes[1] >>
  /\ edges = << >>
  /\ now = 2
  /\ effectPending = FALSE
  /\ \E v \in ViewInits : scale = v.scale /\ offset = v.offset
  /\ isPanning = FALSE
  /\ lastMousePos = IntPt(0, 0)
  /\ connectionStart = Null
  /\ mousePosition = IntPt(0, 0)
  /\ snapFieldId = Null
  /\ draggingNodeRef = Null
  /\ listeners = << >>
  /\ viewSteps = 0
  /\ isExecuting = FALSE
  /\ executionResult = Null
  /\ request = Null
  /\ inFlight = 0
  /\ templates = << >>
  /\ lastEvent = [op |-> "mount"]

NextView ==
  \/ ZoomButton
  \/ Wheel
  \/ PanStart(LeftButton, MaxListeners)
  \/ PanMouseMove
  \/ MouseUp
  \/ NodeDrop
  \/ CleanupEffect

SpecView == InitView /\ [][NextView]_vars

(***************************************************************************)
(* Pattern matcher.                                                        *)
(***************************************************************************)
\* nodes.find(n => n.id === id): the first node with the id, or Null
findNode(ns, id) ==
  IF \E i \in 1..Len(ns) : ns[i].id = id
  THEN ns[CHOOSE i \in 1..Len(ns) :
            ns[i].id = id /\ \A j \in 1..(i - 1) : ns[j].id # id]
  ELSE Null

\* fields.find(f => f.id === fid): the first port with the id, or Null
findField(fields, fid) ==
  IF \E k \in 1..Len(fields) : fields[k].id = fid
  THEN fields[CHOOSE k \in 1..Len(fields) :
                fields[k].id = fid /\ \A j \in 1..(k - 1) : fields[j].id # fid]
  ELSE Null

\* the pattern's kinds are a subset of the graph's kinds
coversNodeTypes(patternNodeTypes, workflowNodeTypes) ==
  \A i \in 1..Len(patternNodeTypes) :
     \E j \in 1..Len(workflowNodeTypes) :
        patternNodeTypes[i] = workflowNodeTypes[j]

\* patternNodeTypes.length === workflowNodeTypes.length && every type equals
\* the type at its index
sameNodeTypes(patternNodeTypes, workflowNodeTypes) ==
  /\ Len(patternNodeTypes) = Len(workflowNodeTypes)
  /\ \A index \in 1..Len(patternNodeTypes) :
       patternNodeTypes[index] = workflowNodeTypes[index]

\* [...new Set(nodes.map(n => n.type))].sort()
workflowNodeTypes(ns) == sort(dedupe([i \in 1..Len(ns) |-> ns[i].type]))

\* the entry pushed onto a connection's list: none unless both ports are found
portNames(sourceOutput, targetInput) ==
  IF sourceOutput # Null /\ targetInput # Null
  THEN << joinArrow(CharsOf[sourceOutput.name], CharsOf[targetInput.name]) >>
  ELSE << >>

\* what edges.forEach files an edge under: its key `${source kind}→${target
\* kind}` and, when both its ports are found, `${output name}→${input name}`;
\* Null for an edge with a node that is not found
filedUnder(sourceNode, targetNode, edge) ==
  IF sourceNode = Null \/ targetNode = Null THEN Null
  ELSE [connection |-> joinArrow(CharsOf[sourceNode.type], CharsOf[targetNode.type]),
        ports |-> portNames(findField(sourceNode.data.outputs, edge.sourceHandle),
                            findField(targetNode.data.inputs, edge.targetHandle))]

connectionOf(ns, edge) ==
  filedUnder(findNode(ns, edge.source), findNode(ns, edge.target), edge)

\* what edges.forEach files, edge by edge
filedConnections(ns, es) == [i \in 1..Len(es) |-> connectionOf(ns, es[i])]

\* the connections record: the keys it has and the list under a key
connectionKeys(filed) ==
  { filed[i].connection : i \in { j \in 1..Len(filed) : filed[j] # Null } }

RECURSIVE connectionsAt(_, _)
connectionsAt(filed, key) ==
  IF filed = << >> THEN << >>
  ELSE (IF Head(filed) # Null /\ Head(filed).connection = key
        THEN Head(filed).ports ELSE << >>)
         \o connectionsAt(Tail(filed), key)

\* the test of one filed connection against the pattern's portConnection
portsMatch(conn, portConnection) ==
  /\ includes(toLowerCase(split(conn)[1]), toLowerCase(split(portConnection)[1]))
  /\ includes(toLowerCase(split(conn)[2]), toLowerCase(split(portConnection)[2]))

\* workflowPatterns.find(p => p.id === patternId), as the list of what it
\* finds (nothing, or the first pattern with the id)
findPattern(patterns, patternId) ==
  IF \A i \in 1..Len(patterns) : patterns[i].id # patternId THEN << >>
  ELSE << patterns[CHOOSE i \in 1..Len(patterns) :
                     /\ patterns[i].id = patternId
                     /\ \A j \in 1..(i - 1) : patterns[j].id # patternId] >>

\* checkWorkflowPattern accepting a pattern as soon as one of its required
\* connections is met
checkPatternOnAnyConnection(ns, pattern, filed) ==
  /\ sameNodeTypes(sort(pattern.requiredNodeTypes), workflowNodeTypes(ns))
  /\ \E k \in 1..Len(pattern.connections) :
       /\ pattern.connections[k].nodeConnection \in connectionKeys(filed)
       /\ \E conn \in Range(connectionsAt(filed, pattern.connections[k].nodeConnection)) :
            portsMatch(conn, pattern.connections[k].portConnection)

\* checkWorkflowPattern once the pattern is found
checkPattern(ns, pattern, filed) ==
  /\ sameNodeTypes(sort(pattern.requiredNodeTypes), workflowNodeTypes(ns))
  /\ \A k \in 1..Len(pattern.requiredNodeTypes) :
       \E i \in 1..Len(ns) : ns[i].type = pattern.requiredNodeTypes[k]
  /\ \A k \in 1..Len(pattern.connections) :
       /\ pattern.connections[k].nodeConnection \in connectionKeys(filed)
       /\ \E conn \in Range(connectionsAt(filed, pattern.connections[k].nodeConnection)) :
            portsMatch(conn, pattern.connections[k].portConnection)

checkWorkflowPattern(ns, es, patternId) ==
  \E pattern \in Range(findPattern(workflowPatterns, patternId)) :
     checkPattern(ns, pattern, filedConnections(ns, es))

\* the pattern the loop of detectWorkflowPattern returns at: the first of the
\* accepted ones
firstAccepted(patterns, accepted) ==
  IF accepted = {} THEN Null
  ELSE [patternId |-> patterns[CHOOSE k \in accepted : \A j \in accepted : k <= j].id,
        endpoint |-> patterns[CHOOSE k \in accepted : \A j \in accepted : k <= j].endpoint]

detectWorkflowPattern(ns, es) ==
  firstAccepted(workflowPatterns,
                { k \in 1..Len(workflowPatterns) :
                    checkWorkflowPattern(ns, es, workflowPatterns[k].id) })

(***************************************************************************)
(* The pointer: node drags, connection drags and pans over a built graph,  *)
(* with the remove button within reach of the keyboard.                    *)
(***************************************************************************)
\* a node id no node of the list carries
StaleNodeId == NodeId(0)

\* the node ids handleNodeDragStart is called with: the ids of the nodes,
\* and an id its nodes.find and its querySelector do not find
NodeHits(ns) == NodeIds(ns) \cup { StaleNodeId }

\* document.querySelector(`[data-node-id="${nodeId}"]`): the first node
\* element with the id, or Null
querySelectorNode(ns, nodeId) == findNode(ns, nodeId)

\* handleNodeDragStart: a pointer-down on a node's body, with any button
\* (e.button is not read); the press stops at the node (stopPropagation)
NodeMouseDown(buttons, limit) ==
  /\ Ready
  /\ Len(listeners) < limit
  /\ viewSteps < MaxViewSteps
  /\ viewSteps' = viewSteps + 1
  /\ \E button \in buttons, nodeId \in NodeHits(nodes) \ Inert(listeners) :
       /\ IF isPanning
          THEN UNCHANGED << draggingNodeRef, listeners >>
          ELSE /\ draggingNodeRef' = nodeId
               /\ listeners' =
                    IF \/ findNode(nodes, nodeId) = Null
                       \/ querySelectorNode(nodes, nodeId) = Null
                    THEN listeners
                    ELSE Append(listeners,
                           [kind |-> "node", nodeId |-> nodeId,
                            start |-> toScreen(findNode(nodes, nodeId).position,
                                               scale, offset),
                            startNode |-> findNode(nodes, nodeId).position,
                            scale |-> scale])
       /\ lastEvent' = [op |-> "nodeMouseDown", button |-> button, nodeId |-> nodeId]
  /\ UNCHANGED << execVars, templates, graphVars, now, scale, offset, isPanning,
                  lastMousePos, connectionStart, mousePosition, snapFieldId >>

\* the node listener's mousemove handler: it moves the node's element by a
\* style transform and leaves the state alone
NodeMouseMove ==
  /\ Ready
  /\ NodeIndexes(listeners) # {}
  /\ lastEvent' = [op |-> "mouseMove"]
  /\ UNCHANGED << execVars, templates, graphVars, now, viewVars, dragVars >>

\* a mouseup on the document with no listener registered: no handler runs
IdleMouseUp ==
  /\ Ready
  /\ listeners = << >>
  /\ lastEvent' = [op |-> "mouseUp", outcomes |-> << >>, proposals |-> << >>]
  /\ UNCHANGED << execVars, templates, graphVars, now, viewVars, dragVars >>

InitPointer ==
  /\ nodes = DragNodes
  /\ edges \in DragEdges
  /\ now = 3
  /\ effectPending = FALSE
  /\ scale = MountedView.scale /\ offset = MountedView.offset
  /\ isPanning = FALSE
  /\ lastMousePos = IntPt(0, 0)
  /\ connectionStart = Null
  /\ mousePosition = IntPt(0, 0)
  /\ snapFieldId = Null
  /\ draggingNodeRef = Null
  /\ listeners = << >>
  /\ viewSteps = 0
  /\ isExecuting = FALSE
  /\ executionResult = Null
  /\ request = Null
  /\ inFlight = 0
  /\ templates = << >>
  /\ lastEvent = [op |-> "mount"]

NextPointer ==
  \/ NodeMouseDown(LeftButton, MaxListeners)
  \/ NodeMouseMove
  \/ FieldMouseDown(LeftButton, MaxListeners)
  \/ ConnMouseMove(OnTheDot)
  \/ PanStart(LeftButton, MaxListeners)
  \/ MouseUp
  \/ IdleMouseUp
  \/ RemoveNodeMidDrag
  \/ CleanupEffect

SpecPointer == InitPointer /\ [][NextPointer]_vars

(***************************************************************************)
(* Execute.                                                                *)
(***************************************************************************)
\* the route of the generic dispatch
FallbackRoute == [url |-> "http://localhost:8000/execute_dynamic_workflow"]

\* prepareNodeData: id, type and the ports of every node; no port of this
\* model holds a value
prepareNodeData(ns) ==
  [i \in 1..Len(ns) |->
     [id |-> ns[i].id, type |-> ns[i].type,
      data |-> [label |-> ns[i].data.label,
                inputs |-> [k \in 1..Len(ns[i].data.inputs) |->
                              [id |-> ns[i].data.inputs[k].id,
                               name |-> ns[i].data.inputs[k].name,
                               type |-> ns[i].data.inputs[k].type,
                               fieldType |-> ns[i].data.inputs[k].fieldType,
                               value |-> Null]],
                outputs |-> [k \in 1..Len(ns[i].data.outputs) |->
                               [id |-> ns[i].data.outputs[k].id,
                                name |-> ns[i].data.outputs[k].name,
                                type |-> ns[i].data.outputs[k].type,
                                fieldType |-> ns[i].data.outputs[k].fieldType]]]]]

\* the cases of the switch that need a file in a port: without one they throw
FileCases == { "csv-agent", "rag", "email-marketing" }

\* the cases that post to the pattern's endpoint
EndpointCases == { "web-search", "marketing-cold-caller" }

\* the cases that post the values of one node's ports to a route of
\* ApiEndpoint
ComponentCases ==
  { "text-agent", "zoom-tool", "arxiv-search", "hackernews-search",
    "text-processor", "pandas-data", "duckdb-sql", "calculator",
    "json-processor", "python-code", "file-operations", "web-scraping",
    "wikipedia", "youtube", "financial-analysis" }

\* the switch of handlePlayClick on the detected pattern: the request it
\* sends, or the error it throws before sending one
dispatchFor(detectedPattern, ns, es) ==
  IF detectedPattern = Null
  THEN [route |-> FallbackRoute,
        body |-> [nodes |-> prepareNodeData(ns), edges |-> validEdges(ns, es)]]
  ELSE IF detectedPattern.patternId \in FileCases
  THEN [error |-> "No file selected"]
  ELSE IF detectedPattern.patternId \in EndpointCases
  THEN [route |-> [url |-> detectedPattern.endpoint],
        body |-> [fields |-> detectedPattern.patternId]]
  ELSE IF detectedPattern.patternId \in ComponentCases
  THEN [route |-> [apiEndpoint |-> detectedPattern.patternId],
        body |-> [fields |-> detectedPattern.patternId]]
  ELSE [route |-> [url |-> detectedPattern.endpoint],
        body |-> [nodes |-> prepareNodeData(ns), edges |-> es]]

\* what handlePlayClick does with a graph that has an End node
dispatchOf(ns, es) == dispatchFor(detectWorkflowPattern(ns, es), ns, es)

Failure(message) == [success |-> FALSE, message |-> message]
Success == [success |-> TRUE, message |-> "Workflow executed successfully!"]

\* the play button's disabled={isExecuting}: no click reaches onPlayClick
\* while the busy flag of the committed render is set
playEnabledAlways(executing) == FALSE

playDisabled(executing) == executing

\* the busy flag left as the handler set it
busyKeptAfterSettling(executing) == executing

\* finally { setIsExecuting(false) }: the busy flag once handlePlayClick has
\* settled, whatever it was set to before
busyAfterSettling(executing) == FALSE

\* the End test left out
hasEndNodeAssumed(ns) == TRUE

\* nodes.some(node => node.type === "End")
hasEndNode(ns) == \E i \in 1..Len(ns) : ns[i].type = "End"

\* handlePlayClick up to its first await
PlayClick ==
  /\ Ready /\ PointerFree
  /\ ~playDisabled(isExecuting)
  /\ IF nodes = << >>
     THEN /\ lastEvent' = [op |-> "play", outcome |-> "alert"]
          /\ UNCHANGED execVars
     ELSE IF ~hasEndNode(nodes)
     THEN /\ isExecuting' = busyAfterSettling(TRUE)
          /\ executionResult' =
               Failure("Error: Workflow must have an End component to complete the execution.")
          /\ request' = Null
          /\ inFlight' = inFlight
          /\ lastEvent' = [op |-> "play", outcome |-> "noEnd"]
     ELSE \E d \in { dispatchOf(nodes, edges) } :
            IF "error" \in DOMAIN d
            THEN /\ isExecuting' = busyAfterSettling(TRUE)
                 /\ executionResult' = Failure(d.error)
                 /\ request' = Null
                 /\ inFlight' = inFlight
                 /\ lastEvent' = [op |-> "play", outcome |-> "thrown"]
            ELSE /\ isExecuting' = TRUE
                 /\ executionResult' = Null
                 /\ request' = d
                 /\ inFlight' = inFlight + 1
                 /\ lastEvent' = [op |-> "play", outcome |-> "sent"]
  /\ UNCHANGED << graphVars, now, viewVars, dragVars, templates >>

\* how an outstanding request ends: a 2xx response, another response, or a
\* rejected fetch
Responses == { "ok", "notOk", "failed" }

\* the requests sent with fetch, whose response handlePlayClick tests itself
Fetched(req) == "url" \in DOMAIN req.route

\* the result handlePlayClick stores for a request sent with fetch
resultIgnoringStatus(r) ==
  IF r = "failed" THEN Failure("Error: Failed to fetch") ELSE Success

resultOfFetch(r) ==
  IF r = "failed" THEN Failure("Error: Failed to fetch")
  ELSE IF r # "ok" THEN Failure("Error: API error")
  ELSE Success

\* the results of a request sent with sendJsonRequest: a rejection is caught
\* by handlePlayClick; what the helper does with a response that is not 2xx
\* is outside this source, and either of the two outcomes is allowed
resultsOfHelper(r) ==
  IF r = "failed" THEN { Failure("Error: Failed to fetch") }
  ELSE IF r # "ok" THEN { Failure("Error: API error"), Success }
  ELSE { Success }

\* the rest of handlePlayClick: the request completes or fails
Respond ==
  /\ request # Null
  /\ \E r \in Responses :
       /\ executionResult' \in (IF Fetched(request) THEN { resultOfFetch(r) }
                                ELSE resultsOfHelper(r))
       /\ lastEvent' = [op |-> "response", outcome |-> r,
                        fetched |-> Fetched(request)]
  /\ isExecuting' = busyAfterSettling(isExecuting)
  /\ request' = Null
  /\ inFlight' = inFlight - 1
  /\ UNCHANGED << graphVars, now, viewVars, dragVars, templates >>

(***************************************************************************)
(* The matcher and execute over built graphs.                              *)
(***************************************************************************)
\* the kinds the graphs are built from
MatchKinds == { "Text-Input-Tool", "Text-Agent", "End", "Calculator" }

\* the clock readings of n nodes created one after the other: the clock
\* stands still or moves on by one between two of them
StampLists(n) ==
  { s \in [1..n -> 1..n] :
      s[1] = 1 /\ \A i \in 1..(n - 1) : s[i + 1] \in { s[i], s[i] + 1 } }

\* where the i-th node is dropped, in client coordinates of the mounted view
DropPoint(i) == IntPt(100 + 450 * i, 100)

NodeList(kinds, s) ==
  [i \in 1..Len(kinds) |->
     NewNode(kinds[i],
             toCanvas(DropPoint(i), MountedView.scale, MountedView.offset), s[i])]

\* the text-agent scenario's kinds and one more node
ScenarioKinds == << "Text-Input-Tool", "Text-Agent", "End", "Calculator" >>

\* every list of up to MaxMatchNodes nodes of these kinds, and the scenario's
\* four nodes created at four readings
MatchNodeLists ==
  UNION { { NodeList(kinds, s) :
              kinds \in [1..n -> MatchKinds], s \in StampLists(n) } :
          n \in 1..MaxMatchNodes }
    \cup { NodeList(ScenarioKinds, [i \in 1..4 |-> i]) }

\* the edge a release hands to onAddEdge, or Null when it refuses
proposedEdge(r) == IF r.outcome = "proposed" THEN r.edge ELSE Null

\* the edge a connection drag from an output port to the port with the field
\* id snapped to hands to onAddEdge, or Null when the release refuses it
draggedEdge(ns, from, snapped) ==
  proposedEdge(released([kind |-> "conn", type |-> "output",
                         nodeId |-> from.nodeId, fieldId |-> from.fieldId,
                         currentSnapCandidate |-> snapped], ns))

\* the edges the drags from the output ports among the elements dom to the
\* entries of the fieldPositions map fp propose
dragsOver(ns, dom, fp) ==
  SelectSeq([n \in 1..(Len(dom) * Len(fp)) |->
               IF dom[((n - 1) \div Len(fp)) + 1].handlerType = "output"
               THEN draggedEdge(ns, dom[((n - 1) \div Len(fp)) + 1],
                                fp[((n - 1) % Len(fp)) + 1].fieldId)
               ELSE Null],
            LAMBDA e : e # Null)

\* the edges the connection drags over these nodes can propose
draggedEdges(ns) ==
  dedupe(dragsOver(ns, DomFields(ns),
                   updateFieldPositions(ns, MountedView.scale, MountedView.offset)))

\* the increasing lists of up to MaxMatchEdges places of a list of n edges
Picks(n) ==
  { p \in UNION { [1..m -> 1..n] : m \in 0..MaxMatchEdges } :
      \A i \in 1..(Len(p) - 1) : p[i] < p[i + 1] }

\* the lists of up to MaxMatchEdges of the edges cand, added by handleAddEdge
\* one clock reading after the other from reading t on
edgeListsOf(cand, t) ==
  { [k \in 1..Len(p) |-> [cand[p[k]] EXCEPT !.id = EdgeId(t + k)]] :
      p \in Picks(Len(cand)) }

MatchEdgeLists(ns, t) == edgeListsOf(draggedEdges(ns), t)

\* the graphs the matcher is run on: the nodes and the edges dragged over them
MatchGraphs ==
  UNION { { << ns, es >> : es \in MatchEdgeLists(ns, ns[Len(ns)].id[2]) } :
          ns \in MatchNodeLists }

InitMatch ==
  /\ \E g \in MatchGraphs : nodes = g[1] /\ edges = g[2]
  /\ now = nodes[Len(nodes)].id[2] + MaxMatchEdges
  /\ effectPending = FALSE
  /\ scale = MountedView.scale /\ offset = MountedView.offset
  /\ isPanning = FALSE
  /\ lastMousePos = IntPt(0, 0)
  /\ connectionStart = Null
  /\ mousePosition = IntPt(0, 0)
  /\ snapFieldId = Null
  /\ draggingNodeRef = Null
  /\ listeners = << >>
  /\ viewSteps = 0
  /\ isExecuting = FALSE
  /\ executionResult = Null
  /\ request = Null
  /\ inFlight = 0
  /\ templates = << >>
  /\ lastEvent = [op |-> "mount"]

NextMatch ==
  \/ PlayClick
  \/ Respond

SpecMatch == InitMatch /\ [][NextMatch]_vars

\* the id of the port called name among fields
PortNamed(fields, name) ==
  fields[CHOOSE k \in 1..Len(fields) : fields[k].name = name].id

\* the edge from the output called outName of src to the input called
\* inName of dst, added by handleAddEdge at reading t
EdgeBetween(src, outName, dst, inName, t) ==
  [id |-> EdgeId(t),
   source |-> src.id, sourceHandle |-> PortNamed(src.data.outputs, outName),
   target |-> dst.id, targetHandle |-> PortNamed(dst.data.inputs, inName)]

\* the csv-agent workflow: four nodes created at four readings and its
\* three connections dragged after them, no file chosen
CsvAgentNodes ==
  NodeList(<< "File-Input-Tool", "Text-Input-Tool", "CSV-Agent", "End" >>,
           [i \in 1..4 |-> i])

CsvAgentGraph ==
  << CsvAgentNodes,
     << EdgeBetween(CsvAgentNodes[1], "File", CsvAgentNodes[3], "File", 5),
        EdgeBetween(CsvAgentNodes[2], "Text", CsvAgentNodes[3], "Query", 6),
        EdgeBetween(CsvAgentNodes[3], "Output", CsvAgentNodes[4], "End", 7) >> >>

\* the graphs of InitMatch and the csv-agent workflow
InitMatchLive ==
  /\ \E g \in MatchGraphs \cup { CsvAgentGraph } : nodes = g[1] /\ edges = g[2]
  /\ now = nodes[Len(nodes)].id[2] + MaxMatchEdges + 1
  /\ effectPending = FALSE
  /\ scale = MountedView.scale /\ offset = MountedView.offset
  /\ isPanning = FALSE
  /\ lastMousePos = IntPt(0, 0)
  /\ connectionStart = Null
  /\ mousePosition = IntPt(0, 0)
  /\ snapFieldId = Null
  /\ draggingNodeRef = Null
  /\ listeners = << >>
  /\ viewSteps = 0
  /\ isExecuting = FALSE
  /\ executionResult = Null
  /\ request = Null
  /\ inFlight = 0
  /\ templates = << >>
  /\ lastEvent = [op |-> "mount"]

\* executes, every outstanding request being answered or rejected in the end
SpecMatchLive == InitMatchLive /\ [][NextMatch]_vars /\ WF_vars(Respond)

(***************************************************************************)
(* Templates: save, marketplace load, and the Playground's load on mount.  *)
(***************************************************************************)
\* handleSaveTemplate's copy of one input: a file input that holds a value
\* is emptied (a File is kept by name and size), every other input is copied
sanitizedInput(input) ==
  IF input.type = "file" /\ "value" \in DOMAIN input /\ input.value # Null
  THEN [input EXCEPT !.value = Null]
  ELSE input

sanitizedNodes(ns) ==
  [i \in 1..Len(ns) |->
     [ns[i] EXCEPT !.data.inputs =
        [k \in 1..Len(ns[i].data.inputs) |-> sanitizedInput(ns[i].data.inputs[k])]]]

\* the template handleSaveTemplate appends
newTemplate(ns, es, t) ==
  [id |-> << "template", t >>, nodes |-> sanitizedNodes(ns), edges |-> es]

\* handleSaveTemplate with a name that is not blank
SaveTemplate ==
  /\ Ready /\ PointerFree
  /\ ~isExecuting
  /\ Len(templates) < MaxTemplates
  /\ templates' = Append(templates, newTemplate(nodes, edges, now))
  /\ lastEvent' = [op |-> "saveTemplate"]
  /\ UNCHANGED << graphVars, now, viewVars, dragVars, execVars >>

\* what handleLoadTemplate and then the load effect do to one input: a file
\* input whose value is an object (null included) loses the value and gets
\* it as fileInfo
processedInput(input) ==
  IF input.type = "file" /\ "value" \in DOMAIN input
  THEN [f \in (DOMAIN input) \cup { "fileInfo" } |->
          IF f = "value" THEN Null
          ELSE IF f = "fileInfo" /\ "fileInfo" \notin DOMAIN input THEN input.value
          ELSE input[f]]
  ELSE input

processedNodes(ns) ==
  [i \in 1..Len(ns) |->
     IF "inputs" \in DOMAIN ns[i].data
     THEN [ns[i] EXCEPT !.data.inputs =
             [k \in 1..Len(ns[i].data.inputs) |-> processedInput(ns[i].data.inputs[k])]]
     ELSE ns[i]]

\* JSON.parse(JSON.stringify(template)): every record and list of the
\* template is rebuilt from its members; a template holds strings, numbers,
\* null, lists and records only, none of which the text form changes
jsonCopy(template) ==
  [id |-> template.id,
   nodes |-> [i \in 1..Len(template.nodes) |->
                [f \in DOMAIN template.nodes[i] |-> template.nodes[i][f]]],
   edges |-> [i \in 1..Len(template.edges) |->
                [f \in DOMAIN template.edges[i] |-> template.edges[i][f]]]]

\* a template card of the marketplace is clicked: handleLoadTemplate stores
\* the sanitized copy under template-to-load and navigates to the
\* playground, which mounts anew and whose load effect sets nodes and edges
\* from the stored text.  The cleanup effect runs after the commit when the
\* node list is not the empty one of the mount.
LoadTemplate ==
  /\ Ready /\ PointerFree
  /\ ~isExecuting
  /\ \E k \in 1..Len(templates) :
       \E stored \in { jsonCopy([jsonCopy(templates[k])
                                   EXCEPT !.nodes = processedNodes(@)]) } :
         /\ nodes' = processedNodes(stored.nodes)
         /\ edges' = stored.edges
         /\ effectPending' = (stored.nodes # << >>)
         /\ lastEvent' = [op |-> "loadTemplate", index |-> k]
  /\ scale' = MountedView.scale /\ offset' = MountedView.offset
  /\ executionResult' = Null
  /\ UNCHANGED << now, isPanning, lastMousePos, viewSteps, dragVars,
                  isExecuting, request, inFlight, templates >>

\* a template of the marketplace list with a kind the sidebar does not
\* offer: a Local-FileSystem node connected to an End node, and a
\* Text-Input-Tool
StoredNodes ==
  << [id |-> NodeId(1), type |-> "Local-FileSystem",
      position |-> toCanvas(IntPt(100, 100), MountedView.scale, MountedView.offset),
      data |-> [label |-> "Local-FileSystem",
                inputs |-> << >>,
                outputs |-> << [id |-> FieldId("output-1", 1), name |-> "Result",
                                type |-> "string", fieldType |-> "output"] >>]],
     NewNode("End",
             toCanvas(IntPt(1000, 100), MountedView.scale, MountedView.offset), 2),
     NewNode("Text-Input-Tool",
             toCanvas(IntPt(550, 400), MountedView.scale, MountedView.offset), 3) >>

StoredTemplate ==
  [id |-> << "template", 4 >>,
   nodes |-> StoredNodes,
   edges |-> << [id |-> EdgeId(4),
                 source |-> StoredNodes[1].id,
                 sourceHandle |-> StoredNodes[1].data.outputs[1].id,
                 target |-> StoredNodes[2].id,
                 targetHandle |-> StoredNodes[2].data.inputs[1].id] >>]

\* the playground with the two nodes of the drags and no template, or empty
\* with the marketplace template in the list
InitTemplate ==
  /\ \/ nodes = DragNodes /\ edges \in DragEdges /\ templates = << >>
     \/ nodes = << >> /\ edges = << >> /\ templates = << StoredTemplate >>
  /\ now = 5
  /\ effectPending = FALSE
  /\ scale = MountedView.scale /\ offset = MountedView.offset
  /\ isPanning = FALSE
  /\ lastMousePos = IntPt(0, 0)
  /\ connectionStart = Null
  /\ mousePosition = IntPt(0, 0)
  /\ snapFieldId = Null
  /\ draggingNodeRef = Null
  /\ listeners = << >>
  /\ viewSteps = 0
  /\ isExecuting = FALSE
  /\ executionResult = Null
  /\ request = Null
  /\ inFlight = 0
  /\ lastEvent = [op |-> "mount"]

NextTemplate ==
  \/ SaveTemplate
  \/ LoadTemplate
  \/ FieldMouseDown(LeftButton, MaxListeners)
  \/ ConnMouseMove(OnTheDot)
  \/ MouseUp
  \/ RemoveNode
  \/ RemoveNodeMidDrag
  \/ CleanupEffect
  \/ PlayClick
  \/ Respond

SpecTemplate == InitTemplate /\ [][NextTemplate]_vars

(***************************************************************************)
(* The matcher on loaded graphs whose port names differ from the catalog.  *)
(***************************************************************************)
\* a node of the kind connected to an End node, as a loaded template gives
\* them: the output of the first carries the name outName, the input of the
\* End node the name inName
RenamedGraph(kind, outName, inName) ==
  << << [NewNode(kind, toCanvas(DropPoint(1), MountedView.scale, MountedView.offset), 1)
           EXCEPT !.data.outputs[1].name = outName],
        [NewNode("End", toCanvas(DropPoint(2), MountedView.scale, MountedView.offset), 2)
           EXCEPT !.data.inputs[1].name = inName] >>,
     << [id |-> EdgeId(3),
         source |-> NodeId(1),
         sourceHandle |-> FieldId(nodeTemplates(kind).outputs[1].id, 1),
         target |-> NodeId(2),
         targetHandle |-> FieldId(nodeTemplates("End").inputs[1].id, 2)] >> >>

\* the playground after such a template was loaded
InitPorts ==
  /\ \E kind \in { "Calculator", "DuckDB-SQL", "Text-Processor", "Python-Code" },
        outName \in { "Result", "Results", "SQL Results", "Execution Result",
                      "Text", "Processed Text", "Output" },
        inName \in { "End", "Query" } :
       /\ nodes = RenamedGraph(kind, outName, inName)[1]
       /\ edges = RenamedGraph(kind, outName, inName)[2]
  /\ now = 4
  /\ effectPending = FALSE
  /\ scale = MountedView.scale /\ offset = MountedView.offset
  /\ isPanning = FALSE
  /\ lastMousePos = IntPt(0, 0)
  /\ connectionStart = Null
  /\ mousePosition = IntPt(0, 0)
  /\ snapFieldId = Null
  /\ draggingNodeRef = Null
  /\ listeners = << >>
  /\ viewSteps = 0
  /\ isExecuting = FALSE
  /\ executionResult = Null
  /\ request = Null
  /\ inFlight = 0
  /\ templates = << >>
  /\ lastEvent = [op |-> "mount"]

NextPorts ==
  \/ PlayClick
  \/ Respond

SpecPorts == InitPorts /\ [][NextPorts]_vars
(***************************************************************************)
(* Gestures: presses with any button on the canvas, on a node and on a     *)
(* port dot, a second button going down before the first is released.      *)
(***************************************************************************)
\* the buttons that may be held at a time
MaxButtonsDown == 2

\* a Text-Input-Tool added from the sidebar at reading 1 and an End node
\* dropped on the canvas at reading 2
GestureNodes ==
  << NewNode("Text-Input-Tool",
             getCurrentViewportCenter(MountedView.scale, MountedView.offset), 1),
     NewNode("End",
             toCanvas(IntPt(900, 100), MountedView.scale, MountedView.offset), 2) >>

\* the built graph in the mounted view, with one pan move or node press left
InitGesture ==
  /\ nodes = GestureNodes
  /\ edges = << >>
  /\ now = 3
  /\ effectPending = FALSE
  /\ scale = MountedView.scale /\ offset = MountedView.offset
  /\ isPanning = FALSE
  /\ lastMousePos = IntPt(0, 0)
  /\ connectionStart = Null
  /\ mousePosition = IntPt(0, 0)
  /\ snapFieldId = Null
  /\ draggingNodeRef = Null
  /\ listeners = << >>
  /\ viewSteps = MaxViewSteps - 1
  /\ isExecuting = FALSE
  /\ executionResult = Null
  /\ request = Null
  /\ inFlight = 0
  /\ templates = << >>
  /\ lastEvent = [op |-> "mount"]

\* while the canvas is dragged as well, the pointer moves as PanMouseMove
\* moves it: every listener runs on each move
NextGesture ==
  \/ PanStart(Buttons, MaxButtonsDown)
  \/ NodeMouseDown(Buttons, MaxButtonsDown)
  \/ FieldMouseDown(Buttons, MaxButtonsDown)
  \/ PanMouseMove
  \/ NodeMouseMove
  \/ PanIndexes(listeners) = {} /\ ConnMouseMove(OnTheDot)
  \/ MouseUp
  \/ IdleMouseUp

SpecGesture == InitGesture /\ [][NextGesture]_vars
(***************************************************************************)
(* The pattern catalog against the node-kind catalog: for every pattern    *)
(* the workflow built for it out of catalog nodes, and its execute.        *)
(***************************************************************************)
\* the pattern's required kinds the sidebar offers
PatternKinds(pattern) ==
  SelectSeq(pattern.requiredNodeTypes, LAMBDA t : t \in TemplateKinds)

\* one node of each of these kinds, dropped at readings 1, 2, ...
PatternNodes(pattern) ==
  NodeList(PatternKinds(pattern), [i \in 1..Len(PatternKinds(pattern)) |-> i])

\* the edge of es is filed under the connection's key with port names that
\* pass the connection's test
MeetsOn(ns, edge, connection) ==
  \E f \in { connectionOf(ns, edge) } :
     /\ f # Null
     /\ f.connection = connection.nodeConnection
     /\ \E conn \in Range(f.ports) : portsMatch(conn, connection.portConnection)

\* the edges among cand that meet the connection
MeetingEdges(ns, cand, connection) ==
  SelectSeq(cand, LAMBDA e : MeetsOn(ns, e, connection))

\* the edges among cand that join the connection's two kinds
JoiningEdges(ns, cand, connection) ==
  SelectSeq(cand, LAMBDA e : connectionOf(ns, e).connection = connection.nodeConnection)

\* for every connection of the pattern the first edge that meets it; where
\* no drag over ns can propose one, the first that joins its two kinds; where
\* there is none either, no edge
PickedEdges(ns, cand, connections) ==
  SelectSeq([k \in 1..Len(connections) |->
               IF MeetingEdges(ns, cand, connections[k]) # << >>
               THEN MeetingEdges(ns, cand, connections[k])[1]
               ELSE IF JoiningEdges(ns, cand, connections[k]) # << >>
               THEN JoiningEdges(ns, cand, connections[k])[1]
               ELSE Null],
            LAMBDA e : e # Null)

\* the picked edges as handleAddEdge adds them, one reading after the other
AddedFrom(picked, t) ==
  [k \in 1..Len(picked) |-> [picked[k] EXCEPT !.id = EdgeId(t + k)]]

PatternEdges(ns, pattern) ==
  AddedFrom(PickedEdges(ns, draggedEdges(ns), pattern.connections), Len(ns))

\* the workflow built for the pattern
PatternGraph(pattern) ==
  << PatternNodes(pattern), PatternEdges(PatternNodes(pattern), pattern) >>

InitCatalog ==
  /\ \E k \in 1..Len(workflowPatterns) :
       /\ nodes = PatternGraph(workflowPatterns[k])[1]
       /\ edges = PatternGraph(workflowPatterns[k])[2]
       /\ lastEvent = [op |-> "mount", built |-> workflowPatterns[k].id]
  /\ now = Len(nodes) + Len(edges)
  /\ effectPending = FALSE
  /\ scale = MountedView.scale /\ offset = MountedView.offset
  /\ isPanning = FALSE
  /\ lastMousePos = IntPt(0, 0)
  /\ connectionStart = Null
  /\ mousePosition = IntPt(0, 0)
  /\ snapFieldId = Null
  /\ draggingNodeRef = Null
  /\ listeners = << >>
  /\ viewSteps = 0
  /\ isExecuting = FALSE
  /\ executionResult = Null
  /\ request = Null
  /\ inFlight = 0
  /\ templates = << >>

NextCatalog ==
  \/ PlayClick
  \/ Respond

SpecCatalog == InitCatalog /\ [][NextCatalog]_vars

(***************************************************************************)
(* Properties of the graph model.                                          *)
(***************************************************************************)
Dangling(e) == e.source \notin NodeIds(nodes) \/ e.target \notin NodeIds(nodes)

\* C1: in every state, also the one right after a removal and before the
\* cleanup effect has run, every edge's source and target node id belong to
\* a node of the node list.
C1_NoDanglingEdges == \A i \in 1..Len(edges) : ~Dangling(edges[i])

\* C2: after the removal of a node that had exactly two connected edges, the
\* first state shows two edges fewer than before the removal.
C2_RemovalDropsBothEdges ==
  (lastEvent.op = "removeNode" /\ lastEvent.connected = 2)
    => Len(edges) = lastEvent.edgesBefore - 2

\* the 4-tuple of an edge
TupleOf(e) == << e.source, e.sourceHandle, e.target, e.targetHandle >>

NoDuplicateEdges ==
  \A i, j \in 1..Len(edges) : TupleOf(edges[i]) = TupleOf(edges[j]) => i = j

\* the edge list holds an edge with the 4-tuple of e
Connected(e) == \E i \in 1..Len(edges) : TupleOf(edges[i]) = TupleOf(e)

\* a release of the pointer: the document listeners run and are removed
Release == listeners # << >> /\ listeners' = << >>

\* the edge a release over the port with this field id stands for
TupleTo(fid) ==
  LET elem == querySelectorField(nodes, fid)
  IN  IF connectionStart.type = "output"
      THEN [source |-> connectionStart.nodeId,
            sourceHandle |-> connectionStart.fieldId,
            target |-> elem.nodeId, targetHandle |-> fid]
      ELSE [source |-> elem.nodeId, sourceHandle |-> fid,
            target |-> connectionStart.nodeId,
            targetHandle |-> connectionStart.fieldId]

\* C3: no two edges of the edge list share the 4-tuple (source, sourceHandle,
\* target, targetHandle), and a release that submits a 4-tuple the edge list
\* already holds leaves the edge list as it is.
C3_AddEdgeIdempotent ==
  /\ []NoDuplicateEdges
  /\ [][(/\ Release
         /\ connectionStart # Null
         /\ snapFieldId # Null
         /\ querySelectorField(nodes, snapFieldId) # Null
         /\ Connected(TupleTo(snapFieldId)))
        => edges' = edges]_vars

\* a release found the same 4-tuple in the edge list and one edge remains
C3_DuplicateSubmitted ==
  /\ lastEvent.op = "mouseUp"
  /\ lastEvent.outcomes = << "duplicate" >>
  /\ Len(edges) = 1

\* the node with this id has a port of this field id among these fields
HasPort(nodeId, fid, side) ==
  \E i \in 1..Len(nodes) :
     /\ nodes[i].id = nodeId
     /\ \E k \in 1..Len(nodes[i].data[side]) : nodes[i].data[side][k].id = fid

\* C4: every edge runs from an output port of a node of the node list to an
\* input port of a node of the node list.
C4_EdgesJoinLivePorts ==
  \A i \in 1..Len(edges) :
     /\ HasPort(edges[i].source, edges[i].sourceHandle, "outputs")
     /\ HasPort(edges[i].target, edges[i].targetHandle, "inputs")

\* the part of C4 about the insertion itself: an edge a release appends runs
\* from an output port to an input port of nodes of the node list
InsertedEdgesJoinLivePorts ==
  [][(Release /\ Len(edges') > Len(edges)) =>
       LET e == edges'[Len(edges')]
       IN  /\ HasPort(e.source, e.sourceHandle, "outputs")
           /\ HasPort(e.target, e.targetHandle, "inputs")]_vars

(***************************************************************************)
(* Properties of the connection drag.                                      *)
(***************************************************************************)
\* the port anchors as the position tracker holds them for the current view
Anchors == updateFieldPositions(nodes, scale, offset)

\* the square of the snap radius, 40 / scale
SnapRadiusSq == RMul(RDiv(RInt(40), scale), RDiv(RInt(40), scale))

InRadius(k) == RLe(DistSq(Anchors[k].pos, mousePosition), SnapRadiusSq)

\* the field ids of the anchors nearest to the pointer within the radius
NearestInRadius ==
  { Anchors[k].fieldId : k \in
      { i \in 1..Len(Anchors) :
          /\ InRadius(i)
          /\ \A j \in 1..Len(Anchors) :
               InRadius(j) => RLe(DistSq(Anchors[i].pos, mousePosition),
                                  DistSq(Anchors[j].pos, mousePosition)) } }

\* the port has the direction of the drag's origin, belongs to the origin's
\* node, or the edge to it is in the edge list already
Refused(fid) ==
  LET elem == querySelectorField(nodes, fid)
  IN  \/ elem.fieldType = connectionStart.type
      \/ elem.nodeId = connectionStart.nodeId
      \/ Connected(TupleTo(fid))

ReleasedOnSameDirection ==
  lastEvent.op = "mouseUp" /\ lastEvent.outcomes = << "direction" >>
ReleasedOnSameNode ==
  lastEvent.op = "mouseUp" /\ lastEvent.outcomes = << "sameNode" >>
ReleasedOnConnectedPort ==
  lastEvent.op = "mouseUp" /\ lastEvent.outcomes = << "duplicate" >>
ReleasedOnFreePort ==
  lastEvent.op = "mouseUp" /\ lastEvent.outcomes = << "added" >>

(***************************************************************************)
(* Properties of the viewport.                                             *)
(***************************************************************************)
ScaleInRange == RLe(MIN_ZOOM, scale) /\ RLe(scale, MAX_ZOOM) /\ scale[1] # 0

\* a zoom button or the wheel asks for the scale plus lastEvent'.delta
ZoomRequest == lastEvent' # lastEvent /\ lastEvent'.op \in { "zoom", "wheel" }

\* C8: the scale stays within [MIN_ZOOM, MAX_ZOOM] = [1/2, 2] and is never
\* 0; a zoom step that asks for a scale above MAX_ZOOM sets MAX_ZOOM, one
\* that asks for a scale below MIN_ZOOM sets MIN_ZOOM, any other the scale
\* it asks for.
C8_ScaleClamped ==
  /\ []ScaleInRange
  /\ [][ZoomRequest =>
         LET asked == RAdd(scale, lastEvent'.delta)
         IN  scale' = IF RLt(MAX_ZOOM, asked) THEN MAX_ZOOM
                      ELSE IF RLt(asked, MIN_ZOOM) THEN MIN_ZOOM
                      ELSE asked]_vars

\* a zoom-in was asked for at the largest scale and the scale stayed there
C8_ZoomInAtLargestScale ==
  /\ lastEvent.op \in { "zoom", "wheel" }
  /\ lastEvent.delta = ZoomStep
  /\ scale = MAX_ZOOM
  /\ viewSteps >= 2

\* a zoom-out was asked for at the smallest scale and the scale stayed there
ZoomOutAtSmallestScale ==
  /\ lastEvent.op \in { "zoom", "wheel" }
  /\ lastEvent.delta = RNeg(ZoomStep)
  /\ scale = MIN_ZOOM
  /\ viewSteps >= 2

\* the canvas points the round trip is taken over: the position and the
\* port anchors of every node, and the canvas origin
CanvasPoints ==
  { nodes[i].position : i \in 1..Len(nodes) }
    \cup { DomFields(nodes)[k].anchor : k \in 1..Len(DomFields(nodes)) }
    \cup { IntPt(0, 0) }

\* C9: in every view, toCanvas(toScreen(p)) = p for the canvas points p.
C9_RoundTrip ==
  \A p \in CanvasPoints :
     toCanvas(toScreen(p, scale, offset), scale, offset) = p

\* a node was dropped in a zoomed and panned view, and the view has changed
\* since
C9_DroppedInChangedView ==
  /\ Len(nodes) = 2
  /\ scale \notin { RInt(1), MIN_ZOOM, MAX_ZOOM }
  /\ offset \notin { v.offset : v \in ViewInits }
  /\ nodes[2].position # toCanvas(IntPt(900, 100), scale, offset)
  /\ lastEvent.op = "mouseMove"

(***************************************************************************)
(* The pattern matcher.                                                    *)
(***************************************************************************)
KindSet(ns) == { ns[i].type : i \in 1..Len(ns) }

\* the id of the node's output port, or input port, with the name
OutputId(node, name) ==
  node.data.outputs[CHOOSE k \in 1..Len(node.data.outputs) :
                      node.data.outputs[k].name = name].id
InputId(node, name) ==
  node.data.inputs[CHOOSE k \in 1..Len(node.data.inputs) :
                     node.data.inputs[k].name = name].id

\* the edge joins the output port outName of node src to the input port
\* inName of node dst
Joins(e, src, outName, dst, inName) ==
  /\ e.source = src.id /\ e.sourceHandle = OutputId(src, outName)
  /\ e.target = dst.id /\ e.targetHandle = InputId(dst, inName)

\* one node each of the kinds Text-Input-Tool, Text-Agent and End among the
\* nodes, joined by the two edges Text-Input-Tool.Text -> Text-Agent.Query
\* and Text-Agent.Output -> End.End, and extra more nodes of the kinds others
TextAgentGraph(others) ==
  /\ Len(nodes) = 3 + Cardinality(others)
  /\ KindSet(nodes) = { "Text-Input-Tool", "Text-Agent", "End" } \cup others
  /\ Len(edges) = 2
  /\ \E a, b, c \in 1..Len(nodes) :
       /\ nodes[a].type = "Text-Input-Tool"
       /\ nodes[b].type = "Text-Agent"
       /\ nodes[c].type = "End"
       /\ \E e, f \in 1..2 :
            /\ e # f
            /\ Joins(edges[e], nodes[a], "Text", nodes[b], "Query")
            /\ Joins(edges[f], nodes[b], "Output", nodes[c], "End")

\* the request of the generic dispatch for the graph
GenericRequest ==
  [route |-> FallbackRoute,
   body |-> [nodes |-> prepareNodeData(nodes), edges |-> validEdges(nodes, edges)]]

Sent == lastEvent = [op |-> "play", outcome |-> "sent"]

\* C5: a graph whose kinds are a strict superset of a pattern's required
\* kinds does not match that pattern; the text-agent graph with one more,
\* unconnected, Calculator node matches no pattern, and the request execute
\* sends for it is the generic {nodes, edges} payload to the fallback route.
C5_ExactKindSet ==
  /\ \A k \in 1..Len(workflowPatterns) :
       ( /\ Range(workflowPatterns[k].requiredNodeTypes) \subseteq KindSet(nodes)
         /\ Range(workflowPatterns[k].requiredNodeTypes) # KindSet(nodes) )
       => ~checkWorkflowPattern(nodes, edges, workflowPatterns[k].id)
  /\ TextAgentGraph({ "Calculator" }) =>
       /\ detectWorkflowPattern(nodes, edges) = Null
       /\ \A k \in 1..Len(workflowPatterns) :
            ~checkWorkflowPattern(nodes, edges, workflowPatterns[k].id)
       /\ Sent => request = GenericRequest

\* the text-agent graph with the extra Calculator has been executed
C5_ExtraCalculatorSentToFallback ==
  /\ TextAgentGraph({ "Calculator" })
  /\ Sent
  /\ request.route = FallbackRoute

\* C6: the graph of one Text-Input-Tool, one Text-Agent and one End node
\* with the edges Text-Input-Tool.Text -> Text-Agent.Query and
\* Text-Agent.Output -> End.End is detected as text-agent, and
\* checkWorkflowPattern refuses every other pattern id of the catalog.
C6_TextAgentDetected ==
  TextAgentGraph({}) =>
    /\ detectWorkflowPattern(nodes, edges) # Null
    /\ detectWorkflowPattern(nodes, edges).patternId = "text-agent"
    /\ \A k \in 1..Len(workflowPatterns) :
         workflowPatterns[k].id # "text-agent"
           => ~checkWorkflowPattern(nodes, edges, workflowPatterns[k].id)

\* no two nodes carry the same id
DistinctNodeIds ==
  \A i, j \in 1..Len(nodes) : nodes[i].id = nodes[j].id => i = j

\* the text-agent graph is detected when its nodes were created at distinct
\* clock readings
TextAgentDetectedOnDistinctIds == DistinctNodeIds => C6_TextAgentDetected

\* the text-agent graph with distinct node ids has been detected
TextAgentGraphDetected ==
  /\ TextAgentGraph({}) /\ DistinctNodeIds
  /\ Sent /\ request.route = [apiEndpoint |-> "text-agent"]

Perms(n) == { p \in [1..n -> 1..n] : \A i, j \in 1..n : p[i] = p[j] => i = j }

\* the nodes can be created in this order: the clock does not run backwards
Constructible(ns) ==
  \A i \in 1..(Len(ns) - 1) : ns[i].id[2] <= ns[i + 1].id[2]

\* each of the edges is one a connection drag over the nodes proposes: a
\* drag from its source port that snaps to its target port's id
Draggable(ns, es) ==
  \A i \in 1..Len(es) :
     \E k \in 1..Len(DomFields(ns)) :
        /\ DomFields(ns)[k].handlerType = "output"
        /\ DomFields(ns)[k].nodeId = es[i].source
        /\ DomFields(ns)[k].fieldId = es[i].sourceHandle
        /\ draggedEdge(ns, DomFields(ns)[k], es[i].targetHandle) # Null
        /\ SameTuple(draggedEdge(ns, DomFields(ns)[k], es[i].targetHandle), es[i])

\* C7: detection does not depend on the insertion order: the same nodes and
\* the same edges inserted in another order give the same pattern id, or
\* null for both.
C7_OrderIndependent ==
  \A p \in Perms(Len(nodes)), q \in Perms(Len(edges)) :
     LET ns == [i \in 1..Len(nodes) |-> nodes[p[i]]]
         es == [i \in 1..Len(edges) |-> edges[q[i]]]
     IN  (Constructible(ns) /\ Draggable(ns, es))
           => detectWorkflowPattern(ns, es) = detectWorkflowPattern(nodes, edges)

\* detection does not depend on the insertion order when no two nodes carry
\* the same id
OrderIndependentOnDistinctIds == DistinctNodeIds => C7_OrderIndependent

\* a graph whose edges were inserted in another order has been matched
EdgesReordered ==
  /\ DistinctNodeIds /\ Len(edges) = 2
  /\ Sent /\ request.route # FallbackRoute

(***************************************************************************)
(* Properties of the pointer.                                              *)
(***************************************************************************)
Idle == isPanning = FALSE /\ connectionStart = Null /\ draggingNodeRef = Null

RefTracked ==
  \/ draggingNodeRef = Null
  \/ \E i \in 1..Len(listeners) :
        listeners[i].kind = "node" /\ listeners[i].nodeId = draggingNodeRef

\* after the pointer-up that ends the drags listeners were registered for,
\* the controller is idle
HandledPointerUpReturnsToIdle == [][(Release /\ RefTracked) => Idle']_vars

\* the listeners whose originating node is no longer in the node list
Orphaned == { i \in 1..Len(listeners) :
                /\ listeners[i].kind \in { "node", "conn" }
                /\ listeners[i].nodeId \notin NodeIds(nodes) }

\* the edges of es with an end at the node
EdgesAt(es, nodeId) ==
  { es[k] : k \in { j \in 1..Len(es) : es[j].source = nodeId \/ es[j].target = nodeId } }

\* C17: the pointer-up of a drag whose originating node was removed during
\* the drag returns to idle and commits nothing: the node list stays as it
\* is and no edge with an end at the removed node is added.  (The reference
\* a refused pointer-down left set is the case of C11 and is set aside.)
C17_RemovedOriginCommitsNothing ==
  [][(Release /\ RefTracked /\ Orphaned # {})
     => /\ Idle'
        /\ nodes' = nodes
        /\ \A i \in Orphaned :
             EdgesAt(edges', listeners[i].nodeId) \subseteq EdgesAt(edges, listeners[i].nodeId)]_vars

\* the part of C17 about node drags: the pointer-up of the drag of a removed
\* node leaves the node list and the edge list as they are
RemovedNodeDragCommitsNothing ==
  [][(Release /\ \E i \in Orphaned : listeners[i].kind = "node")
     => (Idle' /\ nodes' = nodes /\ edges' = edges)]_vars

\* the drag of a node that was removed meanwhile has been released
RemovedNodeDragReleased ==
  /\ lastEvent.op = "mouseUp" /\ lastEvent.outcomes = << "node" >>
  /\ Len(nodes) < Len(DragNodes)

\* C12: while an execute is in flight no second execute starts: at most one
\* request is outstanding, and one is outstanding exactly while the busy flag
\* is set.
C12_NoSecondExecute ==
  /\ inFlight <= 1
  /\ isExecuting <=> inFlight = 1
  /\ request # Null <=> inFlight = 1

\* an execute is in flight
C12_ExecuteInFlight ==
  lastEvent.op = "play" /\ isExecuting /\ inFlight = 1

DeadEnds(body) ==
  { k \in 1..Len(body.edges) :
      \/ body.edges[k].source \notin NodeIds(body.nodes)
      \/ body.edges[k].target \notin NodeIds(body.nodes) }

\* C14: no request that carries an edge list carries an edge whose source or
\* target is not the id of a node of the node list it was built from, on the
\* generic route and on the route of a detected pattern alike.
C14_DispatchedEdgesLive ==
  (request # Null /\ "edges" \in DOMAIN request.body) => DeadEnds(request.body) = {}

\* the part of C14 about the generic route
FallbackEdgesLive ==
  (request # Null /\ request.route = FallbackRoute) => DeadEnds(request.body) = {}

\* a generic request was sent from a graph that holds an edge with a dead end
FallbackSentFromDangling ==
  /\ lastEvent.op = "play" /\ request # Null /\ request.route = FallbackRoute
  /\ validEdges(nodes, edges) # edges

\* what the round trip is to keep of a node list: ids, kinds, and the ids
\* and names of the ports
PortShape(fields) == [k \in 1..Len(fields) |-> << fields[k].id, fields[k].name >>]

NodeShapes(ns) ==
  { << ns[i].id, ns[i].type, PortShape(ns[i].data.inputs), PortShape(ns[i].data.outputs) >> :
      i \in 1..Len(ns) }

\* the 4-tuples of an edge list
EdgeTuples(es) ==
  { << es[k].source, es[k].sourceHandle, es[k].target, es[k].targetHandle >> :
      k \in 1..Len(es) }

SameGraph(ns, es, template) ==
  /\ NodeShapes(ns) = NodeShapes(template.nodes)
  /\ EdgeTuples(es) = EdgeTuples(template.edges)

\* C15: loading a saved template yields the node set and the edge set that
\* were saved, right after the load and after the cleanup effect the load
\* triggers.
C15_SaveLoadRoundTrip ==
  [][/\ lastEvent'.op = "loadTemplate"
        => SameGraph(nodes', edges', templates[lastEvent'.index])
     /\ (lastEvent.op = "loadTemplate" /\ lastEvent'.op = "cleanup")
        => SameGraph(nodes', edges', templates[lastEvent.index])]_vars

\* the same for the templates whose edges all join nodes of the template
LiveTemplateRoundTrip ==
  [][/\ lastEvent'.op = "loadTemplate"
        => SameGraph(nodes', edges', templates[lastEvent'.index])
     /\ (/\ lastEvent.op = "loadTemplate" /\ lastEvent'.op = "cleanup"
         /\ DeadEnds(templates[lastEvent.index]) = {})
        => SameGraph(nodes', edges', templates[lastEvent.index])]_vars

\* a template saved from the playground has been loaded over another graph
SavedTemplateLoaded ==
  /\ lastEvent.op = "loadTemplate"
  /\ templates[lastEvent.index].id # StoredTemplate.id
  /\ Len(templates[lastEvent.index].edges) > 0

\* the ids of the ports of a node
PortIds(node) ==
  { node.data.inputs[k].id : k \in 1..Len(node.data.inputs) }
    \cup { node.data.outputs[k].id : k \in 1..Len(node.data.outputs) }

\* C16: all node ids are pairwise distinct and no port id occurs on two
\* different nodes, also for nodes created at the same clock reading.
C16_IdsPairwiseDistinct ==
  \A i, j \in 1..Len(nodes) :
     i # j => /\ nodes[i].id # nodes[j].id
              /\ PortIds(nodes[i]) \cap PortIds(nodes[j]) = {}

\* the same for nodes created at different clock readings
IdsDistinctAcrossReadings ==
  \A i, j \in 1..Len(nodes) :
     (i # j /\ nodes[i].id # nodes[j].id)
       => PortIds(nodes[i]) \cap PortIds(nodes[j]) = {}

\* two nodes were created at different readings
TwoNodesAtTwoReadings ==
  Len(nodes) = 2 /\ nodes[1].id # nodes[2].id

\* the pattern whose required kinds are the kind and End
PatternOf(kind) ==
  workflowPatterns[CHOOSE k \in 1..Len(workflowPatterns) :
                      workflowPatterns[k].requiredNodeTypes = << kind, "End" >>]

\* the names the one required connection of the pattern expects
ExpectedPorts(kind) == split(PatternOf(kind).connections[1].portConnection)

\* ignoring case, one name contains the other
EitherContains(name, expected) ==
  \/ includes(toLowerCase(name), toLowerCase(expected))
  \/ includes(toLowerCase(expected), toLowerCase(name))

\* ignoring case, the name contains the expected one
Contains(name, expected) == includes(toLowerCase(name), toLowerCase(expected))

\* a request was sent for a graph of one node connected to an End node
PairSent ==
  /\ request # Null
  /\ Len(nodes) = 2 /\ Len(edges) = 1 /\ nodes[2].type = "End"

\* the request went to the route of the pattern of the pair's kind
SentAsPattern == request.route = [apiEndpoint |-> PatternOf(nodes[1].type).id]

\* C18: a required connection is satisfied when the edge's output name
\* contains or is contained by the expected output name and its input name
\* contains or is contained by the expected input name, ignoring case: the
\* pair is then detected as the pattern of its kind.
C18_ContainedNameSatisfies ==
  (/\ PairSent
   /\ EitherContains(CharsOf[nodes[1].data.outputs[1].name], ExpectedPorts(nodes[1].type)[1])
   /\ EitherContains(CharsOf[nodes[2].data.inputs[1].name], ExpectedPorts(nodes[1].type)[2]))
    => SentAsPattern

\* the same for names that contain the expected names
ContainingNameSatisfies ==
  (/\ PairSent
   /\ Contains(CharsOf[nodes[1].data.outputs[1].name], ExpectedPorts(nodes[1].type)[1])
   /\ Contains(CharsOf[nodes[2].data.inputs[1].name], ExpectedPorts(nodes[1].type)[2]))
    => SentAsPattern

\* a pair whose output name properly contains the expected name was sent
LongerNameSent ==
  /\ PairSent /\ SentAsPattern
  /\ nodes[1].type = "Calculator" /\ nodes[1].data.outputs[1].name = "Execution Result"

\* the edge joins nodes of the kinds of the required connection, by ports
\* whose names contain the names it expects
MeetsConnection(edge, sourceNode, targetNode, connection) ==
  /\ sourceNode # Null /\ targetNode # Null
  /\ joinArrow(CharsOf[sourceNode.type], CharsOf[targetNode.type]) = connection.nodeConnection
  /\ \E o \in { findField(sourceNode.data.outputs, edge.sourceHandle) } \ { Null },
        i \in { findField(targetNode.data.inputs, edge.targetHandle) } \ { Null } :
       /\ Contains(CharsOf[o.name], split(connection.portConnection)[1])
       /\ Contains(CharsOf[i.name], split(connection.portConnection)[2])

\* the required connections of the pattern that no edge of the graph meets
Unmet(pattern) ==
  { k \in 1..Len(pattern.connections) :
      \A j \in 1..Len(edges) :
         ~MeetsConnection(edges[j], findNode(nodes, edges[j].source),
                          findNode(nodes, edges[j].target), pattern.connections[k]) }

\* C19: a pattern is matched only if every one of its required connections
\* is met by an edge of the graph: a request sent to the route of a pattern
\* comes from a graph that leaves none of its connections unmet.
C19_EveryConnectionRequired ==
  (request # Null /\ "apiEndpoint" \in DOMAIN request.route)
    => \A k \in 1..Len(workflowPatterns) :
          workflowPatterns[k].id = request.route.apiEndpoint
            => Unmet(workflowPatterns[k]) = {}

\* the text-agent kinds with the Text→Query edge and no edge into End: the
\* request went to the generic route
C19_OneConnectionMissing ==
  /\ Sent /\ request.route = FallbackRoute
  /\ KindSet(nodes) = { "Text-Input-Tool", "Text-Agent", "End" }
  /\ Len(nodes) = 3 /\ DistinctNodeIds
  /\ Cardinality(Unmet(workflowPatterns[
        CHOOSE k \in 1..Len(workflowPatterns) : workflowPatterns[k].id = "text-agent"])) = 1

\* the screen points a zoom step may pivot on: the pointer over the canvas,
\* and the centre of the workspace
Pivots ==
  PanPoints \cup { Pt(RDiv(WorkspaceRect.width, RInt(2)), RDiv(WorkspaceRect.height, RInt(2))) }

\* the step is a zoom step that changes the scale without being clamped
UnclampedZoom ==
  /\ lastEvent'.op \in { "zoom", "wheel" }
  /\ scale' # scale
  /\ scale' = RAdd(scale, lastEvent'.delta)

\* C20: a zoom step keeps the canvas point under the pivot at the pivot:
\* toScreen after the step of toCanvas before the step of the pivot is the
\* pivot, for every scale change inside the clamp range.
C20_PivotStaysFixed ==
  [][UnclampedZoom
     => \A p \in Pivots :
           toScreen(toCanvas(p, scale, offset), scale', offset') = p]_vars

\* what the step does instead: the canvas point under the screen point
\* (scale, scale) of the old view is the one that stays where it was
ZoomFixesScalePoint ==
  [][UnclampedZoom
     => toScreen(toCanvas(Pt(scale, scale), scale, offset), scale', offset')
          = Pt(scale, scale)]_vars

\* an unclamped zoom step has been taken
UnclampedZoomTaken ==
  lastEvent.op \in { "zoom", "wheel" } /\ scale \notin { MIN_ZOOM, MAX_ZOOM }

(***************************************************************************)
(* Panning across a zoom.                                                  *)
(***************************************************************************)
\* the step is a pointer move delivered to a pan's listener
PanMove == lastEvent'.op = "mouseMove" /\ PanIndexes(listeners) # {}

\* the offset after a pan move that divides the screen delta by sc
PannedBy(sc) ==
  Pt(RAdd(offset.x, RDiv(RSub(lastMousePos'.x, lastMousePos.x), sc)),
     RAdd(offset.y, RDiv(RSub(lastMousePos'.y, lastMousePos.y), sc)))

\* C21: each pointer move of a pan adds (screen delta since the previous
\* move) / scale to the offset, scale being the viewport scale at the time of
\* the move, also when a wheel zoom changed it after the pan's pointer-down.
C21_PanDividesByCurrentScale ==
  [][PanMove => offset' = PannedBy(scale)]_vars

\* what the move does instead: it divides by the scale of the render the
\* pan's pointer-down was handled in
PanDividesByPressScale ==
  [][PanMove => offset' = PannedBy(listeners[First(PanIndexes(listeners))].scale)]_vars

\* a pan whose listener holds another scale than the viewport has moved
PannedAfterWheel ==
  /\ lastEvent.op = "mouseMove"
  /\ PanIndexes(listeners) # {}
  /\ listeners[First(PanIndexes(listeners))].scale # scale

(***************************************************************************)
(* Presses on port dots.                                                   *)
(***************************************************************************)
\* the step is a press on a port dot of the given direction while Idle
PortPressFromIdle(direction) ==
  /\ Idle
  /\ lastEvent'.op = "fieldMouseDown"
  /\ lastEvent'.fieldType = direction

\* the connection drag whose origin is the port just pressed
OriginPressed ==
  [nodeId |-> lastEvent'.nodeId, fieldId |-> lastEvent'.fieldId,
   type |-> lastEvent'.fieldType]

\* C22: from Idle, a pointer-down on any port anchor, input or output, enters
\* DraggingConnection with that port's id, node and direction as the origin
\* (so that a drag from an input port to an output port of another node can
\* create the output -> input edge).
C22_AnyPortPressStartsConnection ==
  [][\A direction \in { "input", "output" } :
       PortPressFromIdle(direction) => connectionStart' = OriginPressed]_vars

\* what holds instead: a press on an output port starts the connection drag,
\* and a press on an input port while Idle sets nothing
OutputPressStartsConnection ==
  [][/\ PortPressFromIdle("output") => connectionStart' = OriginPressed
     /\ PortPressFromIdle("input")
          => UNCHANGED << graphVars, viewVars, dragVars, execVars >>]_vars

\* an input port has been pressed while Idle
InputPortPressedFromIdle ==
  /\ lastEvent.op = "fieldMouseDown"
  /\ lastEvent.fieldType = "input"
  /\ listeners = << >>

(***************************************************************************)
(* Presses by button.                                                      *)
(***************************************************************************)
\* the step is a press while Idle: on the empty canvas, on a node's body or
\* on a port dot
PressFromIdle(ops) ==
  /\ Idle
  /\ lastEvent'.op \in ops
  /\ lastEvent'.op = "nodeMouseDown" => lastEvent'.nodeId \in NodeIds(nodes)

\* C23: from Idle, a pointer-down with the middle button enters Panning
\* wherever it lands (empty canvas, node body, port dot), a left-button
\* pointer-down on the empty canvas enters Panning, and a middle-button
\* press on a node does not start a node drag.
C23_MiddleButtonPansAnywhere ==
  [][/\ (PressFromIdle({ "panStart", "nodeMouseDown", "fieldMouseDown" })
           /\ lastEvent'.button = 1)
          => isPanning' /\ NodeIndexes(listeners') = {} /\ draggingNodeRef' = Null
     /\ (PressFromIdle({ "panStart" }) /\ lastEvent'.button = 0)
          => isPanning']_lastEvent

\* what holds instead: the empty canvas pans on the left and on the middle
\* button, and a node's body and a port dot never pan, whatever the button
CanvasPressPans ==
  [][/\ (PressFromIdle({ "panStart" }) /\ lastEvent'.button \in { 0, 1 })
          => isPanning' /\ PanIndexes(listeners') # {}
     /\ PressFromIdle({ "nodeMouseDown", "fieldMouseDown" }) => ~isPanning']_vars

\* the middle button started a node drag
MiddleButtonDragsNode ==
  /\ lastEvent.op = "nodeMouseDown" /\ lastEvent.button = 1
  /\ ~isPanning
  /\ Len(listeners) = 1 /\ NodeIndexes(listeners) = { 1 }
  /\ draggingNodeRef = listeners[1].nodeId

(***************************************************************************)
(* The node drag's single write.                                           *)
(***************************************************************************)
\* a node drag is in progress: its listeners are on the document
DraggingNode == NodeIndexes(listeners) # {}

\* ns is the node list with the node nodeId moved to its start position
\* plus one of the ways a node is dragged, divided by sc, and nothing else
\* changed
MovedOnly(ns, nodeId, startNode, sc) ==
  /\ Len(ns) = Len(nodes)
  /\ \A i \in 1..Len(nodes) :
       IF nodes[i].id = nodeId
       THEN /\ [ns[i] EXCEPT !.position = nodes[i].position] = nodes[i]
            /\ \E d \in NodeDragWays :
                 ns[i].position = Pt(RAdd(startNode.x, RDiv(d.x, sc)),
                                     RAdd(startNode.y, RDiv(d.y, sc)))
       ELSE ns[i] = nodes[i]

\* C24: during DraggingNode no pointer move changes the node list or the edge
\* list; the pointer-up writes the node list once, changing only the dragged
\* node's position to startNodePos + (upPointer - startPointer) / scale, and
\* leaves every other node, every port value, every edge and the viewport
\* as they were.
C24_NodeDragWritesOnceAtRelease ==
  [][/\ (DraggingNode /\ lastEvent'.op = "mouseMove")
          => nodes' = nodes /\ edges' = edges
     /\ (DraggingNode /\ Release)
          => /\ \A i \in NodeIndexes(listeners) :
                  MovedOnly(nodes', listeners[i].nodeId, listeners[i].startNode, scale)
             /\ edges' = edges
             /\ scale' = scale /\ offset' = offset]_lastEvent

\* the same for a node drag that is the only gesture in progress
LoneNodeDragWritesOnceAtRelease ==
  [][/\ (DraggingNode /\ Len(listeners) = 1 /\ lastEvent'.op = "mouseMove")
          => nodes' = nodes /\ edges' = edges
     /\ (DraggingNode /\ Len(listeners) = 1 /\ Release)
          => /\ MovedOnly(nodes', listeners[1].nodeId, listeners[1].startNode, scale)
             /\ edges' = edges
             /\ scale' = scale /\ offset' = offset]_lastEvent

\* a node was dragged away and dropped, alone
NodeDroppedElsewhere ==
  /\ lastEvent.op = "mouseUp"
  /\ lastEvent.outcomes = << "node" >>
  /\ nodes # GestureNodes

\* the release of a node drag added an edge: a connection drag was released
\* with it
NodeDropAddedEdge ==
  /\ lastEvent.op = "mouseUp"
  /\ \E i, j \in 1..Len(lastEvent.outcomes) :
       lastEvent.outcomes[i] = "node" /\ lastEvent.outcomes[j] = "added"
  /\ edges # << >>

(***************************************************************************)
(* The ends of a proposed edge.                                            *)
(***************************************************************************)
\* the element the drag of listener l snapped to at its last move, or Null
SnappedElement(l) ==
  IF l.currentSnapCandidate = Null THEN Null
  ELSE querySelectorField(nodes, l.currentSnapCandidate)

\* the drag of listener l is released on a port of the opposite direction
\* and of another node than its origin
OppositeEnds(l) ==
  /\ SnappedElement(l) # Null
  /\ { l.type, SnappedElement(l).fieldType } = { "input", "output" }
  /\ SnappedElement(l).nodeId # l.nodeId

\* the two ends of the drag of listener l
EndsOf(l) ==
  { [node |-> l.nodeId, port |-> l.fieldId, direction |-> l.type],
    [node |-> SnappedElement(l).nodeId, port |-> SnappedElement(l).fieldId,
     direction |-> SnappedElement(l).fieldType] }

\* edge e leads from the output end to the input end of ends
OutputToInput(e, ends) ==
  /\ \E o \in ends :
       o.direction = "output" /\ e.source = o.node /\ e.sourceHandle = o.port
  /\ \E i \in ends :
       i.direction = "input" /\ e.target = i.node /\ e.targetHandle = i.port

\* C25: a connection drag released with its snap candidate on a port of the
\* opposite direction and of another node proposes exactly one edge to
\* addEdge, with the output end as source / sourceHandle and the input end as
\* target / targetHandle, whichever end the drag started from.
C25_ProposedEdgeRunsOutputToInput ==
  [][Release
     => \A i \in ConnIndexes(listeners) :
          OppositeEnds(listeners[i])
            => /\ Len(lastEvent'.proposals[i]) = 1
               /\ OutputToInput(lastEvent'.proposals[i][1].edge,
                                EndsOf(listeners[i]))]_lastEvent

\* a drag that started on an input port was released on an output port of
\* another node and proposed its edge
C25_InputOriginProposed ==
  /\ lastEvent.op = "mouseUp"
  /\ \E i \in 1..Len(lastEvent.proposals) :
       /\ Len(lastEvent.proposals[i]) = 1
       /\ lastEvent.proposals[i][1].origin = "input"
  /\ edges # << >>

(***************************************************************************)
(* Execute without an End node.                                            *)
(***************************************************************************)
\* the step is an execute on a graph that has nodes but no End node
PlayWithoutEnd ==
  /\ lastEvent'.op = "play"
  /\ nodes # << >>
  /\ \A i \in 1..Len(nodes) : nodes[i].type # "End"

\* C26: execute on a non-empty graph without an End node sends no dispatch
\* request; it stores a failure result whose message says that the workflow
\* must have an End component, leaves the busy flag cleared and the graph
\* as it was.
C26_NoEndNoDispatch ==
  [][PlayWithoutEnd
     => /\ request' = Null /\ inFlight' = inFlight
        /\ executionResult' =
             [success |-> FALSE,
              message |-> "Error: Workflow must have an End component to complete the execution."]
        /\ isExecuting' = FALSE
        /\ nodes' = nodes /\ edges' = edges]_vars

\* an execute on a graph without an End node was refused
C26_RefusedForMissingEnd ==
  /\ lastEvent = [op |-> "play", outcome |-> "noEnd"]
  /\ nodes # << >>
  /\ executionResult # Null /\ ~executionResult.success
  /\ request = Null

(***************************************************************************)
(* The busy flag is cleared in the end.                                    *)
(***************************************************************************)
\* C27: every execute that sets the busy flag clears it in the end and
\* leaves a result that is not null, on the paths that throw before a
\* request is sent (no End node, request construction) and on the paths that
\* end with the response (not 2xx, rejected, success), every outstanding
\* request being answered or rejected eventually.
C27_BusyClearedInTheEnd ==
  /\ [](lastEvent.op = "play" /\ lastEvent.outcome \in { "noEnd", "thrown" }
          => ~isExecuting /\ executionResult # Null)
  /\ isExecuting ~> (~isExecuting /\ executionResult # Null)

\* a request was answered with success and the execute has settled
C27_ExecuteSettled ==
  /\ lastEvent.op = "response" /\ lastEvent.outcome = "ok"
  /\ ~isExecuting
  /\ executionResult # Null /\ executionResult.success
  /\ inFlight = 0

\* an execute threw while its request was put together
ExecuteThrewBeforeSending ==
  lastEvent.op = "play" /\ lastEvent.outcome = "thrown" /\ executionResult # Null

(***************************************************************************)
(* The pattern catalog: one pattern per graph, every pattern within reach. *)
(***************************************************************************)
\* the places of the catalog whose pattern checkWorkflowPattern accepts
Accepted(ns, es) ==
  { k \in 1..Len(workflowPatterns) :
      checkWorkflowPattern(ns, es, workflowPatterns[k].id) }

\* the ids of the catalog with the id at place k moved to the front
MovedToFront(k) ==
  << workflowPatterns[k].id >>
    \o [i \in 1..(Len(workflowPatterns) - 1) |->
          workflowPatterns[IF i < k THEN i ELSE i + 1].id]

\* what the loop of detectWorkflowPattern returns when it goes through the
\* catalog in the order ids, the patterns with their ids in acceptedIds
\* being the accepted ones
DetectedAlong(ids, acceptedIds) ==
  IF \A i \in 1..Len(ids) : ids[i] \notin acceptedIds THEN Null
  ELSE [patternId |->
          ids[CHOOSE i \in 1..Len(ids) :
                /\ ids[i] \in acceptedIds
                /\ \A j \in 1..(i - 1) : ids[j] \notin acceptedIds]]

\* C28: the required kind sets of the catalog's patterns are pairwise
\* distinct, at most one pattern satisfies checkWorkflowPattern on a graph,
\* and detectWorkflowPattern returns the same pattern with the catalog in any
\* order (any accepted pattern could be put first).
C28_AtMostOnePatternAccepted ==
  /\ \A i, j \in 1..Len(workflowPatterns) :
       i # j => Range(workflowPatterns[i].requiredNodeTypes)
                  # Range(workflowPatterns[j].requiredNodeTypes)
  /\ \E acc \in { Accepted(nodes, edges) } :
       /\ Cardinality(acc) <= 1
       /\ \A k \in 1..Len(workflowPatterns) :
            DetectedAlong(MovedToFront(k), { workflowPatterns[a].id : a \in acc })
              = DetectedAlong(MovedToFront(1), { workflowPatterns[a].id : a \in acc })

\* the pattern of the catalog with this id
PatternWithId(id) ==
  workflowPatterns[CHOOSE k \in 1..Len(workflowPatterns) : workflowPatterns[k].id = id]

\* the rag workflow, which meets every connection of the text-agent pattern
\* as well, was executed as rag (and threw, no file being chosen)
C28_RagWorkflowExecuted ==
  /\ lastEvent = [op |-> "play", outcome |-> "thrown"]
  /\ Accepted(nodes, edges) = { k \in 1..Len(workflowPatterns) : workflowPatterns[k].id = "rag" }
  /\ Unmet(PatternWithId("text-agent")) = {}
  /\ Len(edges) = 3

\* the state is the workflow built for a pattern, before any execute
BuiltFor(ids) == lastEvent.op = "mount" /\ lastEvent.built \in ids

\* the ids of the catalog's patterns
PatternIds == { workflowPatterns[k].id : k \in 1..Len(workflowPatterns) }

\* C29: every pattern of the catalog is within reach of addNode and addEdge
\* with the kinds and port names of the node-kind catalog: on the workflow
\* built for a pattern (json-processor and local-filesystem included)
\* detectWorkflowPattern returns that pattern.
C29_EveryPatternDetected ==
  BuiltFor(PatternIds)
    => \E d \in { detectWorkflowPattern(nodes, edges) } :
          d # Null /\ d.patternId = lastEvent.built

\* the patterns no workflow of catalog nodes is detected as
OutOfReach == { "json-processor", "local-filesystem" }

\* what holds instead: the workflows built for the other patterns are
\* detected as their pattern; no sidebar kind is a Local-FileSystem, and no
\* edge that can be dragged between a JSON-Processor and an End node meets
\* the connection of json-processor
OtherPatternsDetected ==
  /\ BuiltFor(PatternIds \ OutOfReach)
       => \E d \in { detectWorkflowPattern(nodes, edges) } :
             d # Null /\ d.patternId = lastEvent.built
  /\ BuiltFor(OutOfReach) => detectWorkflowPattern(nodes, edges) = Null
  /\ "Local-FileSystem" \notin TemplateKinds
  /\ BuiltFor({ "json-processor" })
       => /\ Len(nodes) = 2 /\ Len(edges) = 1
          /\ MeetingEdges(nodes, draggedEdges(nodes),
                          PatternWithId("json-processor").connections[1]) = << >>

\* the workflows built for json-processor and for local-filesystem were
\* executed and sent to the generic fallback
OutOfReachSentToFallback ==
  /\ lastEvent = [op |-> "play", outcome |-> "sent"]
  /\ request.route = FallbackRoute
  /\ \E i \in 1..Len(nodes) : nodes[i].type = "JSON-Processor"
  /\ Len(edges) = 1

\* how many of Panning, DraggingNode and DraggingConnection are active
ActiveInteractions(panning, ref, start) ==
  (IF panning THEN 1 ELSE 0) + (IF ref # Null THEN 1 ELSE 0)
    + (IF start # Null THEN 1 ELSE 0)

\* C30: for every sequence of pointer-down, pointer-move and pointer-up
\* events with any buttons, a second button pressed before the first is
\* released included, at most one of Panning (isPanning), DraggingNode (the
\* dragging-node reference is set) and DraggingConnection (connectionStart
\* is set) is active.
C30_InteractionStatesExclusive ==
  ActiveInteractions(isPanning, draggingNodeRef, connectionStart) <= 1

\* what holds instead: with one press at a time, and no reference left set
\* by a pointer-down that returned early, at most one of the three is active
SinglePressExclusive ==
  (Len(listeners) <= 1 /\ RefTracked)
    => ActiveInteractions(isPanning, draggingNodeRef, connectionStart) <= 1

\* a second button went down on a port while the canvas was being panned,
\* or on the canvas while a node was being dragged: two of the three are
\* active at once
PanningWhileConnecting ==
  /\ isPanning /\ connectionStart # Null /\ draggingNodeRef = Null
  /\ lastEvent.op = "fieldMouseDown"

PanningWhileDraggingNode ==
  /\ isPanning /\ draggingNodeRef # Null /\ RefTracked
  /\ lastEvent.op = "panStart"
====
